---- MODULE Spec2Model ----
(***************************************************************************)
(* Ghost Key: on-device behavioural biometric authentication.              *)
(*                                                                         *)
(* The model covers the integrity store (GhostKeyStorage over IndexedDB    *)
(* and chrome.storage.local), the background message handlers that drive   *)
(* enrollment and verification, the autoencoder library that trains and    *)
(* verifies keystroke profiles, and the keystroke feature extractor.       *)
(*                                                                         *)
(* JavaScript strings are sequences of one-character strings, so that      *)
(* template literals are concatenations and key[2] is an index into a      *)
(* string.  JavaScript numbers are tagged: [fin |-> n] is the finite       *)
(* number n/100; NaN, Infinity and -Infinity are values of their own.       *)
(* Timestamps written into records (createdAt, lastModified, timestamp)    *)
(* are left out of the records: nothing the handlers decide reads them.    *)
(***************************************************************************)
EXTENDS Integers, Sequences, FiniteSets

VARIABLES
    keystrokeModels,   \* IndexedDB object store 'keystrokeModels' (set of records, keyPath id)
    voiceModels,       \* IndexedDB object store 'voiceModels'
    trainingSamples,   \* IndexedDB object store 'trainingSamples'
    globalSettings,    \* chrome.storage.local['globalSettings'], or Unset
    response,          \* what the last handled message passed to its response callback, or the last store call left
    trainCalls,        \* per (origin, username): invocations of the trainers so far (capped)
    submitted,         \* client side: the TRAIN_MODEL samples stored since the last wipe
    keystrokeData,     \* KeystrokeAnalyzer: the captured keystroke events
    clock,             \* performance.now() in ms, counted from the start of the capture
    extracted,         \* what extractFeatures returned for keystrokeData, or Undefined
    corpus,            \* autoencoder library: the feature vectors collected for trainKeystrokeModel
    profile,           \* what trainKeystrokeModel(corpus) returned (or Throw), Undefined before
    authentication,    \* the vector last given to authenticateWithModel with profile, and the result
    pending,           \* store calls in flight: the record each has built and not yet put
    score,             \* calculateSimilarityScore: the two feature sets last compared and the result
    fieldData,         \* content script: the password field's capture state (keystrokes, isCapturing) and its value
    page,              \* content script: where handleSubmit stands, and what became of the submit event
    listener,          \* the onMessage listener: the message it handles and where it is
    training,          \* an in-progress TRAIN_MODEL of the background: where handleTrainModel stands between its awaits
    cleared,           \* pairs whose CLEAR_DATA of type user was answered, with no enrollment begun since
    passed,            \* the payloads passed to storeKeystrokeModel / storeVoiceModel so far, with the identity and the kind
    analyzer,          \* KeystrokeAnalyzer: isCapturing, the time since lastCaptureTime and the inactivity timers pending
    hook               \* useVoiceAuth: its state and refs, the open microphone streams, the recorders and the interval timers

vars == <<keystrokeModels, voiceModels, trainingSamples, globalSettings, response,
          trainCalls, submitted, keystrokeData, clock, extracted,
          corpus, profile, authentication, pending, score, fieldData, page, listener, training, cleared, passed, analyzer, hook>>

storeVars == <<keystrokeModels, voiceModels, trainingSamples, globalSettings, response, trainCalls>>
keyVars == <<keystrokeData, clock, extracted>>
libVars == <<corpus, profile, authentication>>
writeVars == <<pending>>
voiceVars == <<score>>
contentVars == <<fieldData, page>>
listenerVars == <<listener>>
raceVars == <<training, cleared>>
historyVars == <<passed>>
timerVars == <<analyzer>>
hookVars == <<hook>>

----------------------------------------------------------------------------
(* Bounds of the model *)

MaxIdx == 4            \* sample indices 0..MaxIdx are submitted
MaxTrainCalls == 2     \* the invocation counter stops here
MaxKeys == 12          \* at most this many key presses are captured
MaxBackspaces == 1     \* at most this many of them are Backspace
MaxUnreleased == 1     \* at most this many presses are never released
MaxIgnored == 1        \* at most this many events are of an ignored key
MaxCorpus == 6         \* at most this many vectors are collected for one training

----------------------------------------------------------------------------
(* JavaScript values *)

Fin(n) == [fin |-> n]
NaN == [nan |-> TRUE]
Infinity == [inf |-> TRUE]
NegInfinity == [neginf |-> TRUE]
Null == [null |-> TRUE]
Undefined == [undefined |-> TRUE]

\* a JavaScript array
Arr(seq) == [array |-> seq]

IsFin(x) == DOMAIN x = {"fin"}

\* a <= b on JavaScript numbers (false whenever an operand is NaN)
JsLe(a, b) ==
    IF a = NaN \/ b = NaN THEN FALSE
    ELSE IF b = Infinity \/ a = NegInfinity THEN TRUE
    ELSE IF a = Infinity \/ b = NegInfinity THEN FALSE
    ELSE a.fin <= b.fin

\* characters of the strings that are put together
US == <<"_">>
Digit == <<"0", "1", "2", "3", "4", "5", "6", "7", "8", "9">>
KEYSTROKE == <<"k", "e", "y", "s", "t", "r", "o", "k", "e">>
VOICE == <<"v", "o", "i", "c", "e">>
SAMPLE == <<"s", "a", "m", "p", "l", "e">>
UNDEFINED == <<"u", "n", "d", "e", "f", "i", "n", "e", "d">>

\* a sample index is a number [num |-> n], a string [str |-> s] or Undefined
NumIdx(n) == [num |-> n]
StrIdx(s) == [str |-> s]

\* `${sampleIndex}`
TemplateString(v) ==
    IF DOMAIN v = {"num"} THEN <<Digit[v.num + 1]>>
    ELSE IF DOMAIN v = {"str"} THEN v.str
    ELSE UNDEFINED

\* key[k] for a string key (0-based); the empty string stands for undefined
CharAt(s, k) == IF k + 1 <= Len(s) THEN <<s[k + 1]>> ELSE <<>>

----------------------------------------------------------------------------
(* Inputs: the origins, usernames and payloads that are submitted *)

OA == <<"a">>
OAB == <<"a", "_", "b">>
UC == <<"c">>
UBC == <<"b", "_", "c">>

Origins == {OA, OAB}
Usernames == {UC, UBC}

\* keystroke feature vectors carried by messages (finite: messages are JSON)
KsFeatures == {Arr(<<Fin(10)>>), Arr(<<Fin(10), Fin(20)>>)}

\* aggregated voice features carried by messages
VoiceFeatures == {[rmsMean |-> Fin(30)], [rmsMean |-> Fin(60)]}

SampleIdx == 0..MaxIdx

----------------------------------------------------------------------------
(* Tamper-evident tags: src/libs/storage.js generateHMAC / verifyHMAC *)

JSONnumber(x) == IF x = NaN \/ x = Infinity \/ x = NegInfinity THEN Null ELSE x

JSONarray(a) == [i \in DOMAIN a |-> JSONnumber(a[i])]

\* JSON.stringify(data): non-finite numbers are written as null
JSONstringify(data) ==
    IF "threshold" \in DOMAIN data
    THEN [data EXCEPT !.threshold = JSONnumber(@),
                      !.trainingStats = [maxError |-> JSONnumber(@.maxError)],
                      !.normalizationParams = [min |-> Arr(JSONarray(@.min.array)),
                                               max |-> Arr(JSONarray(@.max.array))],
                      !.autoencoder = IF @ = Undefined THEN @
                                      ELSE [@ EXCEPT !.weights = JSONnumber(@)]]
    ELSE IF "referenceModel" \in DOMAIN data
    THEN [data EXCEPT !.referenceModel = [rmsMean |-> JSONnumber(@.rmsMean)]]
    ELSE IF "features" \in DOMAIN data
    THEN [data EXCEPT !.features = IF @ = Undefined THEN @ ELSE Arr(JSONarray(@.array))]
    ELSE IF "voiceFeatures" \in DOMAIN data
    THEN [data EXCEPT !.voiceFeatures = [rmsMean |-> JSONnumber(@.rmsMean)]]
    ELSE data

\* HMAC-SHA256 under the fixed key 'ghost-key-extension': the tag of a message
\* is taken to determine the message (no collisions, no forgery)
generateHMAC(data) == [hmac |-> JSONstringify(data)]

verifyHMAC(data, signature) == signature = [hmac |-> JSONstringify(data)]

----------------------------------------------------------------------------
(* IndexedDB: an object store is a set of records with distinct ids *)

\* a put that adds the record and keeps the one stored under its id
PutKeepingOld(store, record) == store \cup {record}

Put(store, record) == {r \in store : r.id # record.id} \cup {record}

\* a put that fails after it has written the payload of the record, with the
\* tag of the record it found left in place
PutTorn(store, record) ==
    {IF r.id = record.id THEN [k \in DOMAIN r |-> IF k = "signature" THEN r[k] ELSE record[k]]
     ELSE r : r \in store}

\* IDBObjectStore.put(record) whose request fails: the transaction aborts and
\* the store keeps what it held
PutAborted(store, record) == store

Get(store, id) == {r \in store : r.id = id}

Delete(store, key) == {r \in store : r.id # key}

DeleteAll(store, keys) == {r \in store : r.id \notin keys}

\* index 'origin_username' of keystrokeModels and voiceModels
OriginUsernameKey(r) == <<r.origin, r.username>>

\* index 'origin_username_index' of trainingSamples; a record whose
\* sampleIndex is no valid key has no entry in the index
OriginUsernameIndexKey(r) == <<r.origin, r.username, r.sampleIndex>>

IsValidKey(v) == DOMAIN v = {"num"} \/ DOMAIN v = {"str"}

\* IDBIndex.getAll(query): the records whose index key EQUALS the query key
SamplesGetAll(store, query) ==
    {r \in store : IsValidKey(r.sampleIndex) /\ OriginUsernameIndexKey(r) = query}

\* IDBIndex.getAllKeys(query): the PRIMARY keys of the records whose index key equals the query
SamplesGetAllKeys(store, query) == {r.id : r \in SamplesGetAll(store, query)}

\* IDBIndex.getAllKeys(): the primary keys of all records in the index
SamplesGetAllKeysNoQuery(store) == {r.id : r \in {q \in store : IsValidKey(q.sampleIndex)}}

ModelsGetAllKeys(store, query) == {r.id : r \in {q \in store : OriginUsernameKey(q) = query}}

----------------------------------------------------------------------------
(* GhostKeyStorage: src/libs/storage.js *)

KeystrokeId(origin, username) == origin \o US \o username \o US \o KEYSTROKE

VoiceId(origin, username) == origin \o US \o username \o US \o VOICE

SampleId(origin, username, sampleIndex) ==
    origin \o US \o username \o US \o SAMPLE \o US \o TemplateString(sampleIndex)

\* a store that leaves a record already kept under the id as it is
storeKeystrokeModelKeepingFirst(store, origin, username, modelData) ==
    IF Get(store, KeystrokeId(origin, username)) # {} THEN store
    ELSE Put(store, [id |-> KeystrokeId(origin, username),
                     origin |-> origin,
                     username |-> username,
                     modelData |-> modelData,
                     signature |-> generateHMAC(modelData)])

storeKeystrokeModel(store, origin, username, modelData) ==
    Put(store, [id |-> KeystrokeId(origin, username),
                origin |-> origin,
                username |-> username,
                modelData |-> modelData,
                signature |-> generateHMAC(modelData)])

\* a load that hands out the payload without verifying its tag
getKeystrokeModelUnverified(store, origin, username) ==
    LET found == Get(store, KeystrokeId(origin, username)) IN
    IF found = {} THEN Null
    ELSE (CHOOSE r \in found : TRUE).modelData

getKeystrokeModel(store, origin, username) ==
    LET found == Get(store, KeystrokeId(origin, username)) IN
    IF found = {} THEN Null
    ELSE LET result == CHOOSE r \in found : TRUE IN
         IF verifyHMAC(result.modelData, result.signature) THEN result.modelData ELSE Null

storeVoiceModel(store, origin, username, voiceProfile) ==
    Put(store, [id |-> VoiceId(origin, username),
                origin |-> origin,
                username |-> username,
                voiceProfile |-> voiceProfile,
                signature |-> generateHMAC(voiceProfile)])

getVoiceModel(store, origin, username) ==
    LET found == Get(store, VoiceId(origin, username)) IN
    IF found = {} THEN Null
    ELSE LET result == CHOOSE r \in found : TRUE IN
         IF verifyHMAC(result.voiceProfile, result.signature) THEN result.voiceProfile ELSE Null

storeTrainingSample(store, origin, username, sampleIndex, sampleData) ==
    Put(store, [id |-> SampleId(origin, username, sampleIndex),
                origin |-> origin,
                username |-> username,
                sampleIndex |-> sampleIndex,
                sampleData |-> sampleData,
                signature |-> generateHMAC(sampleData)])

\* a lookup that returns every valid sample of the pair, keystroke and voice
getTrainingSamplesOfPair(store, origin, username) ==
    {r \in store : /\ r.origin = origin
                   /\ r.username = username
                   /\ verifyHMAC(r.sampleData, r.signature)}

\* the records behind the list getTrainingSamples resolves with (one list
\* entry, its sampleData, per record)
getTrainingSamples(store, origin, username) ==
    {r \in SamplesGetAll(store, <<origin, username>>) : verifyHMAC(r.sampleData, r.signature)}

DefaultGlobalSettings == [requiredSamples |-> 5, voiceThreshold |-> Fin(75)]

Unset == [unset |-> TRUE]

\* getChromeSetting('globalSettings', defaults): result[key] || defaultValue
getGlobalSettings(stored) == IF stored = Unset THEN DefaultGlobalSettings ELSE stored

\* the deletes clearUserData queues on the three stores
clearUserDataKeystroke(store, origin, username) == Delete(store, KeystrokeId(origin, username))

clearUserDataVoice(store, origin, username) == Delete(store, VoiceId(origin, username))

clearUserDataSamples(store, origin, username) ==
    LET keys == SamplesGetAllKeys(store, <<origin, username>>) IN
    DeleteAll(store, {CharAt(key, 2) : key \in keys})

\* the deletes clearSiteData queues on the three stores
clearSiteDataKeystroke(store, origin) ==
    LET keys == ModelsGetAllKeys(store, <<origin>>) IN
    DeleteAll(store, {CharAt(key, 0) \o US \o CharAt(key, 1) \o US \o KEYSTROKE : key \in keys})

clearSiteDataVoice(store, origin) ==
    LET voiceKeys == ModelsGetAllKeys(store, <<origin>>) IN
    DeleteAll(store, {CharAt(key, 0) \o US \o CharAt(key, 1) \o US \o VOICE : key \in voiceKeys})

clearSiteDataSamples(store, origin) ==
    LET allKeys == SamplesGetAllKeysNoQuery(store) IN
    DeleteAll(store, {CharAt(key, 2) : key \in {k \in allKeys : CharAt(k, 0) = origin}})

----------------------------------------------------------------------------
(* Trainers and verifiers: src/libs/autoencoder.js, voice library *)

SAMPLES_REQUIRED == 5          \* AUTH_CONFIG.SAMPLES_REQUIRED
AUTOENCODER_THRESHOLD == 3     \* AUTH_CONFIG.AUTOENCODER_THRESHOLD (0.03, in hundredths)
requiredVoiceSamples == 3

Throw == [throw |-> TRUE]

\* the object trainKeystrokeModel returns; the serialized network is reduced
\* to its input size and to whether its weights are numbers
Profile(threshold, maxError, weights, min, max) ==
    [modelType |-> "autoencoder",
     autoencoder |-> [inputSize |-> Len(min), weights |-> weights],
     normalizationParams |-> [min |-> Arr(min), max |-> Arr(max)],
     threshold |-> threshold,
     trainingStats |-> [maxError |-> maxError]]

\* a profile of one-entry vectors normalized over [0, 0.2]
ModelData(threshold, maxError, weights) ==
    Profile(threshold, maxError, weights, <<Fin(0)>>, <<Fin(20)>>)

\* Math.max(a, b)
MathMax(a, b) ==
    IF a = NaN \/ b = NaN THEN NaN
    ELSE IF JsLe(a, b) THEN b ELSE a

\* a || b on numbers: undefined, NaN and 0 are falsy
OrElse(a, b) == IF a = Undefined \/ a = NaN \/ a = Fin(0) THEN b ELSE a

\* the finite numbers among the entries i of the vectors
Column(features, i) ==
    {features[k].array[i].fin : k \in {j \in DOMAIN features :
                                          /\ i <= Len(features[j].array)
                                          /\ IsFin(features[j].array[i])}}

\* normalizeFeatures(features): min and max per entry of the first vector's
\* length; an entry no vector has a number at keeps its initial value.  (The
\* noisy copies that augmentation adds are left out of the minima and maxima.)
normalizeFeatures(features) ==
    LET featureCount == Len(features[1].array) IN
    [min |-> [i \in 1..featureCount |->
                 IF Column(features, i) = {} THEN Infinity
                 ELSE Fin(CHOOSE v \in Column(features, i) : \A w \in Column(features, i) : v <= w)],
     max |-> [i \in 1..featureCount |->
                 IF Column(features, i) = {} THEN NegInfinity
                 ELSE Fin(CHOOSE v \in Column(features, i) : \A w \in Column(features, i) : w <= v)]]

\* value normalized with the stored minimum and maximum of its entry
Normalize(value, lo, hi) ==
    IF ~IsFin(lo) \/ ~IsFin(hi) THEN NaN
    ELSE IF hi.fin - lo.fin = 0 THEN Fin(0)
    ELSE IF ~IsFin(value) THEN NaN
    ELSE Fin(((value.fin - lo.fin) * 100) \div (hi.fin - lo.fin))

\* whether training leaves numbers in the network: forward() over a vector
\* shorter than the input size, or over a vector holding NaN, returns NaN
\* outputs, and backpropagate() writes them into the output weights and biases
WeightsAfterTraining(samples) ==
    IF \E k \in DOMAIN samples :
          \/ Len(samples[k].array) < Len(samples[1].array)
          \/ \E i \in DOMAIN samples[k].array : ~IsFin(samples[k].array[i])
    THEN NaN ELSE Fin(1)

\* mean squared errors a forward pass over a well-formed vector can give
FiniteErrors == {Fin(0), Fin(5)}

\* the lists reconstructionErrors can be after training on samples: NaN for
\* every sample once the weights are NaN and for a sample longer than the
\* network's input (reconstructed[i] is undefined there), else a number that
\* depends on the random weights
ReconstructionErrorLists(samples) ==
    {[k \in DOMAIN samples |->
         IF WeightsAfterTraining(samples) = NaN
              \/ Len(samples[k].array) > Len(samples[1].array)
         THEN NaN ELSE e[k]] : e \in [DOMAIN samples -> FiniteErrors]}

\* Math.floor(sortedErrors.length * 0.95)
percentileIndex(n) == (n * 95) \div 100

\* the values sortedErrors[percentileIndex] can have: the entry of the
\* ascending list; with NaN among the errors the comparator (a, b) => a - b
\* is inconsistent and the order is implementation-defined, so any entry
SortedErrorsAt(reconstructionErrors, index) ==
    IF index + 1 > Len(reconstructionErrors) THEN {Undefined}
    ELSE IF \E k \in DOMAIN reconstructionErrors : reconstructionErrors[k] = NaN
    THEN {reconstructionErrors[k] : k \in DOMAIN reconstructionErrors}
    ELSE {v \in {reconstructionErrors[k] : k \in DOMAIN reconstructionErrors} :
            /\ Cardinality({k \in DOMAIN reconstructionErrors :
                               reconstructionErrors[k].fin < v.fin}) <= index
            /\ Cardinality({k \in DOMAIN reconstructionErrors :
                               reconstructionErrors[k].fin <= v.fin}) > index}

\* a threshold that is the percentile value alone
ThresholdUnfloored(reconstructionErrors) ==
    SortedErrorsAt(reconstructionErrors, percentileIndex(Len(reconstructionErrors)))

\* Math.max(sortedErrors[percentileIndex] || AUTOENCODER_THRESHOLD, AUTOENCODER_THRESHOLD)
Threshold(reconstructionErrors) ==
    {MathMax(OrElse(v, Fin(AUTOENCODER_THRESHOLD)), Fin(AUTOENCODER_THRESHOLD)) :
        v \in SortedErrorsAt(reconstructionErrors, percentileIndex(Len(reconstructionErrors)))}

\* Math.max(...reconstructionErrors)
MaxError(reconstructionErrors) ==
    IF \E k \in DOMAIN reconstructionErrors : reconstructionErrors[k] = NaN THEN NaN
    ELSE CHOOSE v \in {reconstructionErrors[k] : k \in DOMAIN reconstructionErrors} :
            \A k \in DOMAIN reconstructionErrors : reconstructionErrors[k].fin <= v.fin

\* a training that returns a profile whatever it is given
trainKeystrokeModelLenient(samples) ==
    {ModelData(Fin(AUTOENCODER_THRESHOLD), Fin(2), Fin(1))}

\* The outcomes of trainKeystrokeModel(samples), samples a list of feature
\* vectors.  A list entry that is undefined (a stored voice sample has no
\* features) makes addNoise throw.  Nothing compares the lengths of the
\* vectors or looks for non-numbers.
trainKeystrokeModel(samples) ==
    IF Len(samples) < SAMPLES_REQUIRED THEN {Throw}
    ELSE IF \E k \in DOMAIN samples : samples[k] = Undefined THEN {Throw}
    ELSE LET params == normalizeFeatures(samples) IN
         UNION {{Profile(threshold, MaxError(reconstructionErrors),
                         WeightsAfterTraining(samples), params.min, params.max) :
                     threshold \in Threshold(reconstructionErrors)} :
                 reconstructionErrors \in ReconstructionErrorLists(samples)}

\* mean squared errors a forward pass over a sample of the profile's length
\* can give
ReconstructionErrors == {Fin(1), Fin(AUTOENCODER_THRESHOLD), Fin(4)}

\* normalizedFeatures of authenticateWithModel: features.map(...), an entry
\* past the stored minima or maxima becomes 0
normalizedFeatures(features, modelData) ==
    LET min == modelData.normalizationParams.min.array
        max == modelData.normalizationParams.max.array
    IN [i \in DOMAIN features.array |->
           IF i > Len(min) \/ i > Len(max) THEN Fin(0)
           ELSE Normalize(features.array[i], min[i], max[i])]

\* the values reconstructionError can have: forward() reads inputSize entries
\* of its input and returns inputSize outputs, the error loop runs over the
\* entries of normalizedFeatures; an undefined or NaN operand makes it NaN
reconstructionErrorsOf(normalized, autoencoder) ==
    IF \/ Len(normalized) # autoencoder.inputSize
       \/ autoencoder.weights = NaN
       \/ \E i \in DOMAIN normalized : normalized[i] = NaN
    THEN {NaN}
    ELSE ReconstructionErrors

\* success = reconstructionError < threshold
thresholdCheckStrict(reconstructionError, threshold) ==
    JsLe(reconstructionError, threshold) /\ reconstructionError # threshold

\* success = reconstructionError <= threshold
thresholdCheck(reconstructionError, threshold) == JsLe(reconstructionError, threshold)

\* The outcomes of authenticateWithModel(features, modelData)
authenticateWithModel(features, modelData) ==
    IF modelData.modelType # "autoencoder" \/ modelData.autoencoder = Undefined THEN {Throw}
    ELSE {[success |-> thresholdCheck(reconstructionError, modelData.threshold),
           authenticated |-> thresholdCheck(reconstructionError, modelData.threshold),
           reconstructionError |-> reconstructionError,
           threshold |-> modelData.threshold] :
             reconstructionError \in
                reconstructionErrorsOf(normalizedFeatures(features, modelData),
                                       modelData.autoencoder)}

\* overall similarities calculateSimilarityScore can give
Similarities == {Fin(70), Fin(80)}

\* The outcomes of verifyVoiceProfile(sampleFeatures, storedProfile, threshold)
verifyVoiceProfile(sampleFeatures, storedProfile, threshold) ==
    IF "referenceModel" \notin DOMAIN storedProfile THEN {Throw}
    ELSE {[success |-> JsLe(threshold, similarity), similarity |-> similarity] :
            similarity \in Similarities}

RECURSIVE SumRms(_)
SumRms(samples) ==
    IF samples = {} THEN 0
    ELSE LET r == CHOOSE x \in samples : TRUE
         IN r.sampleData.voiceFeatures.rmsMean.fin + SumRms(samples \ {r})

calculateAverageFeatures(samples) ==
    [rmsMean |-> Fin(SumRms(samples) \div Cardinality(samples))]

createVoiceProfile(username, samples) ==
    IF samples = {} THEN Throw
    ELSE [username |-> username,
          sampleCount |-> Cardinality(samples),
          modelType |-> "voice_biometric",
          referenceModel |-> calculateAverageFeatures(samples)]

----------------------------------------------------------------------------
(* JavaScript number arithmetic of the similarity score *)

\* A JavaScript number is a binary floating-point number: a significand of
\* Precision bits times a power of two, every operation rounded to the
\* nearest such number, ties to the even significand (IEEE 754).  The
\* significand is shortened from the 53 bits of a double so that the
\* intermediate products fit the integers of the checker; the operations are
\* the ones of the standard.
Precision == 13

Float(m, e) == [m |-> m, e |-> e]
Zero == Float(0, 0)

Abs(n) == IF n < 0 THEN 0 - n ELSE n
Sign(n) == IF n < 0 THEN 0 - 1 ELSE 1

RECURSIVE BitLength(_)
BitLength(n) == IF n = 0 THEN 0 ELSE 1 + BitLength(n \div 2)

\* the number nearest to n * 2^e
Round(n, e) ==
    LET a == Abs(n)
        b == BitLength(a)
    IN IF n = 0 THEN Zero
       ELSE IF b <= Precision
       THEN Float(n * 2^(Precision - b), e - (Precision - b))
       ELSE LET k == b - Precision
                q == a \div 2^k
                r == a % 2^k
                half == 2^(k - 1)
                q1 == IF r > half \/ (r = half /\ q % 2 = 1) THEN q + 1 ELSE q
            IN IF q1 = 2^Precision
               THEN Float(Sign(n) * 2^(Precision - 1), e + k + 1)
               ELSE Float(Sign(n) * q1, e + k)

FromInt(n) == Round(n, 0)

FloatMul(a, b) == Round(a.m * b.m, a.e + b.e)

FloatAdd(a, b) ==
    IF a.m = 0 THEN b
    ELSE IF b.m = 0 THEN a
    ELSE LET hi == IF a.e >= b.e THEN a ELSE b
             lo == IF a.e >= b.e THEN b ELSE a
             d == hi.e - lo.e
         IN IF d > Precision + 2 THEN hi
            ELSE Round(hi.m * 2^d + lo.m, lo.e)

FloatSub(a, b) == FloatAdd(a, Float(0 - b.m, b.e))

\* a / b for b # 0: the quotient to Precision + 2 bits and a sticky bit
FloatDiv(a, b) ==
    IF a.m = 0 THEN Zero
    ELSE LET n == Abs(a.m) * 2^(Precision + 2)
             d == Abs(b.m)
             q == n \div d
             sticky == IF n % d = 0 THEN 0 ELSE 1
         IN Round(Sign(a.m) * Sign(b.m) * (2 * q + sticky), a.e - b.e - Precision - 3)

\* the largest r in lo..hi with r * r <= v
RECURSIVE FloorSqrt(_, _, _)
FloorSqrt(v, lo, hi) ==
    IF lo = hi THEN lo
    ELSE LET mid == (lo + hi + 1) \div 2
         IN IF mid * mid <= v THEN FloorSqrt(v, mid, hi) ELSE FloorSqrt(v, lo, mid - 1)

\* Math.sqrt(a) for a >= 0
MathSqrt(a) ==
    IF a.m = 0 THEN Zero
    ELSE LET t == IF (a.e - (Precision + 2)) % 2 = 0 THEN Precision + 2 ELSE Precision + 3
             v == a.m * 2^t
             r == FloorSqrt(v, 0, 2^(Precision + 2))
             sticky == IF r * r = v THEN 0 ELSE 1
         IN Round(2 * r + sticky, ((a.e - t) \div 2) - 1)

MathAbs(a) == Float(Abs(a.m), a.e)

\* a < b
FloatLess(a, b) == FloatSub(a, b).m < 0

FloatMin(a, b) == IF FloatLess(b, a) THEN b ELSE a
FloatMax(a, b) == IF FloatLess(a, b) THEN b ELSE a

One == FromInt(1)

\* the literals 0.5, 0.3 and 0.2
Half == FloatDiv(FromInt(5), FromInt(10))
ThreeTenths == FloatDiv(FromInt(3), FromInt(10))
TwoTenths == FloatDiv(FromInt(2), FromInt(10))

\* sum over i < minLength of x[i] * y[i], added up from the left
RECURSIVE DotProduct(_, _, _)
DotProduct(x, y, minLength) ==
    IF minLength = 0 THEN Zero
    ELSE FloatAdd(DotProduct(x, y, minLength - 1), FloatMul(x[minLength], y[minLength]))

calculateSimilarityScore(features1, features2) ==
    IF features1 = Undefined \/ features2 = Undefined
    THEN [overallSimilarity |-> Zero, spectralSimilarity |-> Zero,
          voiceQualitySimilarity |-> Zero, confidenceScore |-> Zero]
    ELSE
    LET minLength == IF Len(features1.mfccMean) <= Len(features2.mfccMean)
                     THEN Len(features1.mfccMean) ELSE Len(features2.mfccMean)
        dotProduct == DotProduct(features1.mfccMean, features2.mfccMean, minLength)
        norm1 == DotProduct(features1.mfccMean, features1.mfccMean, minLength)
        norm2 == DotProduct(features2.mfccMean, features2.mfccMean, minLength)
        magnitude == FloatMul(MathSqrt(norm1), MathSqrt(norm2))
        mfccSimilarity ==
            IF Len(features1.mfccMean) > 0 /\ Len(features2.mfccMean) > 0 /\ magnitude.m > 0
            THEN FloatDiv(dotProduct, magnitude)
            ELSE Zero
        Diff(field) == MathAbs(FloatSub(features1[field], features2[field]))
        spectralSimilarity ==
            FloatSub(One, FloatDiv(FloatAdd(FloatAdd(Diff("spectralCentroidMean"),
                                                     Diff("spectralFlatnessMean")),
                                            Diff("spectralRolloffMean")),
                                   FromInt(3)))
        temporalSimilarity ==
            FloatSub(One, FloatDiv(FloatAdd(FloatAdd(Diff("zcrMean"), Diff("rmsMean")),
                                            Diff("energyMean")),
                                   FromInt(3)))
        overallSimilarity ==
            FloatAdd(FloatAdd(FloatMul(mfccSimilarity, Half),
                              FloatMul(spectralSimilarity, ThreeTenths)),
                     FloatMul(temporalSimilarity, TwoTenths))
    IN [overallSimilarity |-> FloatMax(Zero, FloatMin(One, overallSimilarity)),
        spectralSimilarity |-> FloatMax(Zero, FloatMin(One, spectralSimilarity)),
        voiceQualitySimilarity |-> FloatMax(Zero, FloatMin(One, temporalSimilarity)),
        confidenceScore |-> FloatMin(One, FloatMax(Zero, overallSimilarity)),
        detailedMetrics |-> [mfccSimilarity |-> mfccSimilarity]]

----------------------------------------------------------------------------
(* Background service worker: src/background.js *)

Pairs == Origins \X Usernames

NoData == [x \in {} |-> TRUE]

\* The callback chrome.runtime hands to the listener takes ONE argument, the
\* response.  Every handler calls it as sendResponse(success, data, message):
\* the parameter named sendResponse hides the helper function of that name,
\* so the sender is delivered the first argument, a boolean.
ChromeSendResponse(to, success, data, message) ==
    [to |-> to,
     delivered |-> [boolean |-> success],
     args |-> [success |-> success, data |-> data, message |-> message]]

\* the request a response answers
To(type, origin, username) == [type |-> type, origin |-> origin, username |-> username]

\* the response the helper sendResponse(sendResponse, success, data, message)
\* would build: {success, message, timestamp, ...data}
HelperResponse(success, data, message) ==
    [k \in {"success", "message"} \cup DOMAIN data |->
        IF k = "success" THEN [boolean |-> success]
        ELSE IF k = "message" THEN [string |-> message]
        ELSE data[k]]

Bump(calls, kind, origin, username) ==
    [calls EXCEPT ![kind][<<origin, username>>] =
        IF @ < MaxTrainCalls THEN @ + 1 ELSE @]

\* a check that removes the record it loads
handleAuthCheckRemoving(origin, username, features, dbError) ==
    /\ keystrokeModels' = Delete(keystrokeModels, KeystrokeId(origin, username))
    /\ UNCHANGED <<voiceModels, trainingSamples, globalSettings, trainCalls>>
    /\ response' = ChromeSendResponse(To("AUTH_CHECK", origin, username), FALSE,
                        [authenticated |-> FALSE, reason |-> "No biometric profile found"], "")

handleAuthCheck(origin, username, features, dbError) ==
    /\ UNCHANGED <<keystrokeModels, voiceModels, trainingSamples, globalSettings, trainCalls>>
    /\ IF features = Undefined
       THEN response' = ChromeSendResponse(To("AUTH_CHECK", origin, username), FALSE, NoData,
                                           "Missing required authentication data")
       ELSE IF dbError
       THEN response' = ChromeSendResponse(To("AUTH_CHECK", origin, username), FALSE,
                           [authenticated |-> FALSE, reason |-> "Authentication failed"], "")
       ELSE LET modelData == getKeystrokeModel(keystrokeModels, origin, username) IN
            IF modelData = Null
            THEN response' = ChromeSendResponse(To("AUTH_CHECK", origin, username), FALSE,
                                [authenticated |-> FALSE, reason |-> "No biometric profile found"], "")
            ELSE \E result \in authenticateWithModel(features, modelData) :
                    IF result = Throw
                    THEN response' = ChromeSendResponse(To("AUTH_CHECK", origin, username), FALSE,
                                        [authenticated |-> FALSE, reason |-> "Authentication failed"], "")
                    ELSE response' = ChromeSendResponse(To("AUTH_CHECK", origin, username), TRUE,
                                        [authenticated |-> result.authenticated,
                                         reason |-> IF result.authenticated
                                                    THEN "Authentication successful"
                                                    ELSE "Biometric pattern mismatch"], "")

handleVoiceCheck(origin, username, voiceFeatures, dbError) ==
    /\ UNCHANGED <<keystrokeModels, voiceModels, trainingSamples, globalSettings, trainCalls>>
    /\ IF voiceFeatures = Undefined
       THEN response' = ChromeSendResponse(To("VOICE_CHECK", origin, username), FALSE, NoData,
                                           "Missing required voice authentication data")
       ELSE IF dbError
       THEN response' = ChromeSendResponse(To("VOICE_CHECK", origin, username), FALSE,
                           [authenticated |-> FALSE, reason |-> "Voice authentication failed"], "")
       ELSE LET voiceModel == getVoiceModel(voiceModels, origin, username) IN
            IF voiceModel = Null
            THEN response' = ChromeSendResponse(To("VOICE_CHECK", origin, username), FALSE,
                                [authenticated |-> FALSE, reason |-> "No voice profile found"], "")
            ELSE LET threshold == getGlobalSettings(globalSettings).voiceThreshold IN
                 \E result \in verifyVoiceProfile(voiceFeatures, voiceModel, threshold) :
                    IF result = Throw
                    THEN response' = ChromeSendResponse(To("VOICE_CHECK", origin, username), FALSE,
                                        [authenticated |-> FALSE, reason |-> "Voice authentication failed"], "")
                    ELSE response' = ChromeSendResponse(To("VOICE_CHECK", origin, username), TRUE,
                                        [authenticated |-> result.success,
                                         reason |-> IF result.success
                                                    THEN "Voice authentication successful"
                                                    ELSE "Voice pattern mismatch"], "")

\* samples.map(sample => sample.features), for each order the list can have
FeatureVectors(samples) ==
    {[k \in 1..Cardinality(samples) |->
         IF "features" \in DOMAIN order[k].sampleData
         THEN order[k].sampleData.features ELSE Undefined] :
       order \in {o \in [1..Cardinality(samples) -> samples] :
                    \A r \in samples : \E k \in 1..Cardinality(samples) : o[k] = r}}

handleTrainModel(origin, username, features, sampleIndex, dbError) ==
    LET stored == storeTrainingSample(trainingSamples, origin, username, sampleIndex,
                                      [features |-> features, privacyMode |-> FALSE])
        samples == getTrainingSamples(stored, origin, username)
        requiredSamples == getGlobalSettings(globalSettings).requiredSamples
    IN
    /\ UNCHANGED <<voiceModels, globalSettings>>
    /\ IF features = Undefined
       THEN /\ response' = ChromeSendResponse(To("TRAIN_MODEL", origin, username), FALSE, NoData,
                                              "Missing required training data")
            /\ UNCHANGED <<keystrokeModels, trainingSamples, trainCalls>>
       ELSE IF dbError
       THEN /\ response' = ChromeSendResponse(To("TRAIN_MODEL", origin, username), FALSE, NoData,
                                              "Training failed")
            /\ UNCHANGED <<keystrokeModels, trainingSamples, trainCalls>>
       ELSE IF Cardinality(samples) >= requiredSamples
       THEN /\ trainingSamples' = stored
            /\ trainCalls' = Bump(trainCalls, "keystroke", origin, username)
            /\ \E featureVectors \in FeatureVectors(samples) :
               \E modelData \in trainKeystrokeModel(featureVectors) :
                  IF modelData = Throw
                  THEN /\ response' = ChromeSendResponse(To("TRAIN_MODEL", origin, username), FALSE,
                                                         NoData, "Training failed")
                       /\ UNCHANGED keystrokeModels
                  ELSE /\ keystrokeModels' = storeKeystrokeModel(keystrokeModels, origin, username, modelData)
                       /\ response' = ChromeSendResponse(To("TRAIN_MODEL", origin, username), TRUE,
                                          [modelTrained |-> TRUE,
                                           sampleCount |-> Cardinality(samples),
                                           threshold |-> modelData.threshold],
                                          "Biometric model trained successfully")
       ELSE /\ trainingSamples' = stored
            /\ response' = ChromeSendResponse(To("TRAIN_MODEL", origin, username), TRUE,
                               [modelTrained |-> FALSE,
                                sampleCount |-> Cardinality(samples),
                                requiredSamples |-> requiredSamples],
                               "Continue enrollment")
            /\ UNCHANGED <<keystrokeModels, trainCalls>>

handleTrainVoice(origin, username, voiceFeatures, sampleIndex, dbError) ==
    LET stored == storeTrainingSample(trainingSamples, origin, username,
                                      StrIdx(VOICE \o US \o TemplateString(sampleIndex)),
                                      [voiceFeatures |-> voiceFeatures, type |-> "voice"])
        samples == getTrainingSamples(stored, origin, username)
        voiceSamples == {r \in samples : "type" \in DOMAIN r.sampleData /\ r.sampleData.type = "voice"}
    IN
    /\ UNCHANGED <<keystrokeModels, globalSettings>>
    /\ IF voiceFeatures = Undefined
       THEN /\ response' = ChromeSendResponse(To("TRAIN_VOICE", origin, username), FALSE, NoData,
                                              "Missing required voice training data")
            /\ UNCHANGED <<voiceModels, trainingSamples, trainCalls>>
       ELSE IF dbError
       THEN /\ response' = ChromeSendResponse(To("TRAIN_VOICE", origin, username), FALSE, NoData,
                                              "Voice training failed")
            /\ UNCHANGED <<voiceModels, trainingSamples, trainCalls>>
       ELSE IF Cardinality(voiceSamples) >= requiredVoiceSamples
       THEN /\ trainingSamples' = stored
            /\ trainCalls' = Bump(trainCalls, "voice", origin, username)
            /\ voiceModels' = storeVoiceModel(voiceModels, origin, username,
                                              createVoiceProfile(username, voiceSamples))
            /\ response' = ChromeSendResponse(To("TRAIN_VOICE", origin, username), TRUE,
                               [voiceProfileCreated |-> TRUE,
                                sampleCount |-> Cardinality(voiceSamples)],
                               "Voice profile created successfully")
       ELSE /\ trainingSamples' = stored
            /\ response' = ChromeSendResponse(To("TRAIN_VOICE", origin, username), TRUE,
                               [voiceProfileCreated |-> FALSE,
                                sampleCount |-> Cardinality(voiceSamples),
                                requiredSamples |-> requiredVoiceSamples],
                               "Continue enrollment")
            /\ UNCHANGED <<voiceModels, trainCalls>>

handleSetSettings(settings) ==
    /\ globalSettings' = settings
    /\ response' = ChromeSendResponse([type |-> "SET_SETTINGS"], TRUE, NoData,
                                      "Global settings updated")
    /\ UNCHANGED <<keystrokeModels, voiceModels, trainingSamples, trainCalls>>

handleGetSettings ==
    /\ response' = ChromeSendResponse([type |-> "GET_SETTINGS"], TRUE,
                                      [settings |-> getGlobalSettings(globalSettings)], "")
    /\ UNCHANGED <<keystrokeModels, voiceModels, trainingSamples, globalSettings, trainCalls>>

\* CLEAR_DATA: type 'all', 'site' (with origin) or 'user' (with origin and username)
handleClearData(type, origin, username) ==
    /\ UNCHANGED trainCalls
    /\ IF type = "all"
       THEN /\ keystrokeModels' = {}
            /\ voiceModels' = {}
            /\ trainingSamples' = {}
            /\ globalSettings' = Unset
            /\ response' = ChromeSendResponse([type |-> "CLEAR_DATA"], TRUE, NoData,
                                              "All biometric data cleared")
       ELSE IF type = "site"
       THEN /\ keystrokeModels' = clearSiteDataKeystroke(keystrokeModels, origin)
            /\ voiceModels' = clearSiteDataVoice(voiceModels, origin)
            /\ trainingSamples' = clearSiteDataSamples(trainingSamples, origin)
            /\ response' = ChromeSendResponse([type |-> "CLEAR_DATA", origin |-> origin], TRUE, NoData,
                                              "All data for origin cleared")
            /\ UNCHANGED globalSettings
       ELSE /\ keystrokeModels' = clearUserDataKeystroke(keystrokeModels, origin, username)
            /\ voiceModels' = clearUserDataVoice(voiceModels, origin, username)
            /\ trainingSamples' = clearUserDataSamples(trainingSamples, origin, username)
            /\ response' = ChromeSendResponse(To("CLEAR_DATA", origin, username), TRUE, NoData,
                                              "Data for user cleared")
            /\ UNCHANGED globalSettings

----------------------------------------------------------------------------
(* Content script: content.js, as listed in src/README.md *)

\* obj.name: undefined when the value has no such member (a boolean has none)
Member(obj, name) == IF name \in DOMAIN obj THEN obj[name] ELSE Undefined

\* the values an if takes as false
Truthy(v) == v \notin {Undefined, Null, NaN, Fin(0), [boolean |-> FALSE], [string |-> ""]}

\* resolve(response || {}) in sendMessage
Received(delivered) == IF Truthy(delivered) THEN delivered ELSE NoData

\* the page before a form is submitted
IdlePage ==
    [handler |-> "idle",           \* handleSubmit: idle, waiting for AUTH_CHECK, or answered
     features |-> Arr(<<>>),       \* the features of the submission being handled
     defaultPrevented |-> FALSE,   \* the canceled flag of the last submit event
     formSubmitted |-> FALSE,      \* the form of the last submit event was sent
     submissions |-> 0,            \* submit events handled with a password and keystrokes
     declined |-> FALSE]           \* the user turned an enrollment dialog down

----------------------------------------------------------------------------
(* The background service worker driven by messages *)

P1 == <<OA, UBC>>
P2 == <<OAB, UC>>

\* the keystroke / voice samples stored for a pair, whatever their index
KeystrokeSamplesOf(store, origin, username) ==
    {r \in store : r.origin = origin /\ r.username = username /\ "features" \in DOMAIN r.sampleData}

VoiceSamplesOf(store, origin, username) ==
    {r \in store : r.origin = origin /\ r.username = username /\ "voiceFeatures" \in DOMAIN r.sampleData}

\* A client numbers its samples from 0: it submits the next index, or index 0
\* again.  P2 submits index 0 only.
IdxOf(pair, count) ==
    IF pair = P1 THEN {i \in SampleIdx : i = count \/ i = 0} ELSE {0}

\* index 0 of P1 is submitted with either feature vector
FeaturesOf(pair, sampleIndex) ==
    IF pair = P1 /\ sampleIndex = 0 THEN KsFeatures ELSE {Arr(<<Fin(10)>>)}

\* the client's record of a sample it submitted: the features last submitted
\* for (origin, username, sampleIndex) and whether the index was submitted before
Submit(log, origin, username, sampleIndex, features) ==
    LET old == {s \in log : /\ s.origin = origin
                            /\ s.username = username
                            /\ s.sampleIndex = sampleIndex}
    IN (log \ old) \cup {[origin |-> origin, username |-> username,
                          sampleIndex |-> sampleIndex, features |-> features,
                          again |-> old # {}]}

VoiceIdx == 0..(requiredVoiceSamples - 1)

SettingsChoices ==
    {[requiredSamples |-> 3, voiceThreshold |-> Fin(75)]}

NoResponse == [to |-> [type |-> "none"]]

Init ==
    /\ keystrokeModels = {}
    /\ voiceModels = {}
    /\ trainingSamples = {}
    /\ globalSettings = Unset
    /\ response = NoResponse
    /\ trainCalls = [kind \in {"keystroke", "voice"} |-> [pair \in Pairs |-> 0]]
    /\ submitted = {}
    /\ keystrokeData = <<>>
    /\ clock = 0
    /\ extracted = Undefined
    /\ corpus = <<>>
    /\ profile = Undefined
    /\ authentication = Undefined
    /\ pending = {}
    /\ score = Undefined
    /\ fieldData = [keystrokes |-> <<>>, isCapturing |-> FALSE, value |-> <<>>]
    /\ page = IdlePage
    /\ listener = [type |-> "none", block |-> "idle", pc |-> 0, answers |-> 0]
    /\ training = [pc |-> "idle", sampleIndex |-> NumIdx(0), samples |-> {}, modelData |-> Undefined]
    /\ cleared = {}
    /\ passed = {}
    /\ analyzer = [isCapturing |-> FALSE, sinceCapture |-> 0, timers |-> <<>>]
    /\ hook = [isRecording |-> FALSE, recordingTime |-> 0, started |-> 0, mediaRecorderRef |-> 0, streamRef |-> 0, timerRef |-> 0, streams |-> {}, recorders |-> {}, intervals |-> {}, threw |-> FALSE]

AuthCheck ==
    \E pair \in {P1}, features \in {Arr(<<Fin(10)>>), Undefined}, dbError \in BOOLEAN :
        /\ handleAuthCheck(pair[1], pair[2], features, dbError)
        /\ UNCHANGED <<keyVars, libVars, submitted, writeVars, voiceVars, contentVars, listenerVars, raceVars, historyVars, timerVars, hookVars>>

VoiceCheck ==
    \E pair \in {P1}, voiceFeatures \in {[rmsMean |-> Fin(30)], Undefined}, dbError \in BOOLEAN :
        /\ handleVoiceCheck(pair[1], pair[2], voiceFeatures, dbError)
        /\ UNCHANGED <<keyVars, libVars, submitted, writeVars, voiceVars, contentVars, listenerVars, raceVars, historyVars, timerVars, hookVars>>

TrainModel ==
    \E pair \in {P1, P2} :
    \E sampleIndex \in IdxOf(pair, Cardinality(KeystrokeSamplesOf(trainingSamples, pair[1], pair[2]))) :
    \E features \in FeaturesOf(pair, sampleIndex) \cup {Undefined} :
    \E dbError \in BOOLEAN :
        /\ handleTrainModel(pair[1], pair[2], features, NumIdx(sampleIndex), dbError)
        /\ submitted' = IF features = Undefined \/ dbError
                        THEN submitted
                        ELSE Submit(submitted, pair[1], pair[2], NumIdx(sampleIndex), features)
        /\ UNCHANGED <<keyVars, libVars, writeVars, voiceVars, contentVars, listenerVars, raceVars, historyVars, timerVars, hookVars>>

TrainVoice ==
    \E sampleIndex \in VoiceIdx, voiceFeatures \in {[rmsMean |-> Fin(30)], Undefined},
       dbError \in BOOLEAN :
        /\ sampleIndex <= Cardinality(VoiceSamplesOf(trainingSamples, P1[1], P1[2]))
        /\ handleTrainVoice(P1[1], P1[2], voiceFeatures, NumIdx(sampleIndex), dbError)
        /\ UNCHANGED <<keyVars, libVars, submitted, writeVars, voiceVars, contentVars, listenerVars, raceVars, historyVars, timerVars, hookVars>>

SetSettings ==
    \E settings \in SettingsChoices :
        /\ handleSetSettings(settings)
        /\ UNCHANGED <<keyVars, libVars, submitted, writeVars, voiceVars, contentVars, listenerVars, raceVars, historyVars, timerVars, hookVars>>

GetSettings == handleGetSettings /\ UNCHANGED <<keyVars, libVars, submitted, writeVars, voiceVars, contentVars, listenerVars, raceVars, historyVars, timerVars, hookVars>>

ClearData ==
    \E type \in {"all", "site", "user"}, pair \in {P1, P2} :
        /\ handleClearData(type, pair[1], pair[2])
        /\ submitted' = IF type = "all" THEN {} ELSE submitted
        /\ UNCHANGED <<keyVars, libVars, writeVars, voiceVars, contentVars, listenerVars, raceVars, historyVars, timerVars, hookVars>>

Next ==
    \/ AuthCheck
    \/ VoiceCheck
    \/ TrainModel
    \/ TrainVoice
    \/ SetSettings
    \/ GetSettings
    \/ ClearData

Spec == Init /\ [][Next]_vars

----------------------------------------------------------------------------
(* The integrity store with its other callers and a party that rewrites    *)
(* stored records without the key.  storeKeystrokeModel and storeVoiceModel *)
(* are called with the payloads below (RuntimeAPI.trainModel and            *)
(* RuntimeAPI.voiceRegister call them directly); IndexedDB is open to the  *)
(* device owner, who can rewrite the payload of a record.                   *)

StoragePairs == {P1, P2}

\* profiles passed to storeKeystrokeModel: a sound one, one whose statistics
\* are NaN and one without a network
ModelDatas ==
    {ModelData(Fin(AUTOENCODER_THRESHOLD), Fin(2), Fin(1)),
     ModelData(Fin(AUTOENCODER_THRESHOLD), NaN, Fin(1)),
     [ModelData(Fin(AUTOENCODER_THRESHOLD), Fin(2), Fin(1)) EXCEPT !.autoencoder = Undefined]}

\* payloads a rewritten keystroke record is given
RewrittenModelDatas ==
    {ModelData(Infinity, Fin(2), Fin(1)),
     ModelData(Fin(AUTOENCODER_THRESHOLD), Infinity, Fin(1))}

\* profiles passed to storeVoiceModel: one built by createVoiceProfile and
\* one built by RuntimeAPI.voiceRegister ({template, samples, createdAt})
VoiceProfiles(username) ==
    {[username |-> username, sampleCount |-> requiredVoiceSamples,
      modelType |-> "voice_biometric", referenceModel |-> [rmsMean |-> Fin(30)]],
     [template |-> Arr(<<Fin(30)>>)]}

RewrittenVoiceProfiles(username) ==
    {[username |-> username, sampleCount |-> requiredVoiceSamples,
      modelType |-> "voice_biometric", referenceModel |-> [rmsMean |-> Fin(60)]]}

\* what a completed store call leaves behind: the id its promise resolved
\* with, and whether put found a record under that id
Stored(call, id, replaced) == [to |-> [type |-> call], resolved |-> id, replaced |-> replaced]

StoreKeystrokeModelCall ==
    \E pair \in StoragePairs, modelData \in ModelDatas :
        /\ keystrokeModels' = storeKeystrokeModel(keystrokeModels, pair[1], pair[2], modelData)
        /\ response' = Stored("storeKeystrokeModel", KeystrokeId(pair[1], pair[2]),
                               Get(keystrokeModels, KeystrokeId(pair[1], pair[2])) # {})
        /\ UNCHANGED <<voiceModels, trainingSamples, globalSettings, trainCalls>>
        /\ UNCHANGED <<keyVars, libVars, submitted, writeVars, voiceVars, contentVars, listenerVars, raceVars, historyVars, timerVars, hookVars>>

StoreVoiceModelCall ==
    \E pair \in {P1} : \E voiceProfile \in VoiceProfiles(pair[2]) :
        /\ voiceModels' = storeVoiceModel(voiceModels, pair[1], pair[2], voiceProfile)
        /\ response' = Stored("storeVoiceModel", VoiceId(pair[1], pair[2]),
                               Get(voiceModels, VoiceId(pair[1], pair[2])) # {})
        /\ UNCHANGED <<keystrokeModels, trainingSamples, globalSettings, trainCalls>>
        /\ UNCHANGED <<keyVars, libVars, submitted, writeVars, voiceVars, contentVars, listenerVars, raceVars, historyVars, timerVars, hookVars>>

RewriteKeystrokeRecord ==
    \E r \in keystrokeModels, modelData \in RewrittenModelDatas :
        /\ keystrokeModels' = (keystrokeModels \ {r}) \cup {[r EXCEPT !.modelData = modelData]}
        /\ response' = NoResponse
        /\ UNCHANGED <<voiceModels, trainingSamples, globalSettings, trainCalls>>
        /\ UNCHANGED <<keyVars, libVars, submitted, writeVars, voiceVars, contentVars, listenerVars, raceVars, historyVars, timerVars, hookVars>>

RewriteVoiceRecord ==
    \E r \in voiceModels : \E voiceProfile \in RewrittenVoiceProfiles(r.username) :
        /\ voiceModels' = (voiceModels \ {r}) \cup {[r EXCEPT !.voiceProfile = voiceProfile]}
        /\ response' = NoResponse
        /\ UNCHANGED <<keystrokeModels, trainingSamples, globalSettings, trainCalls>>
        /\ UNCHANGED <<keyVars, libVars, submitted, writeVars, voiceVars, contentVars, listenerVars, raceVars, historyVars, timerVars, hookVars>>

AuthCheckStored ==
    \E pair \in StoragePairs, dbError \in BOOLEAN :
        /\ handleAuthCheck(pair[1], pair[2], Arr(<<Fin(10)>>), dbError)
        /\ UNCHANGED <<keyVars, libVars, submitted, writeVars, voiceVars, contentVars, listenerVars, raceVars, historyVars, timerVars, hookVars>>

VoiceCheckStored ==
    \E pair \in {P1}, dbError \in BOOLEAN :
        /\ handleVoiceCheck(pair[1], pair[2], [rmsMean |-> Fin(30)], dbError)
        /\ UNCHANGED <<keyVars, libVars, submitted, writeVars, voiceVars, contentVars, listenerVars, raceVars, historyVars, timerVars, hookVars>>

TrainModelStored ==
    \E pair \in {P1} :
        /\ handleTrainModel(pair[1], pair[2], Arr(<<Fin(10)>>), NumIdx(0), FALSE)
        /\ submitted' = Submit(submitted, pair[1], pair[2], NumIdx(0), Arr(<<Fin(10)>>))
        /\ UNCHANGED <<keyVars, libVars, writeVars, voiceVars, contentVars, listenerVars, raceVars, historyVars, timerVars, hookVars>>

\* SET_SETTINGS stores whatever object it is sent, a required count of 0 too
SetSettingsStored ==
    /\ handleSetSettings([requiredSamples |-> 0, voiceThreshold |-> Fin(75)])
    /\ UNCHANGED <<keyVars, libVars, submitted, writeVars, voiceVars, contentVars, listenerVars, raceVars, historyVars, timerVars, hookVars>>

ClearDataStored ==
    \E type \in {"all", "site", "user"}, pair \in StoragePairs :
        /\ handleClearData(type, pair[1], pair[2])
        /\ submitted' = IF type = "all" THEN {} ELSE submitted
        /\ UNCHANGED <<keyVars, libVars, writeVars, voiceVars, contentVars, listenerVars, raceVars, historyVars, timerVars, hookVars>>

NextStorage ==
    \/ StoreKeystrokeModelCall
    \/ StoreVoiceModelCall
    \/ RewriteKeystrokeRecord
    \/ RewriteVoiceRecord
    \/ AuthCheckStored
    \/ VoiceCheckStored
    \/ TrainModelStored
    \/ SetSettingsStored
    \/ ClearDataStored

SpecStorage == Init /\ [][NextStorage]_vars

\* Store calls step by step.  storeKeystrokeModel and storeVoiceModel first
\* await generateHMAC and build the record, and put it in a later task; other
\* calls run in between.
MaxPending == 2

KeystrokeRecord(origin, username, modelData) ==
    CHOOSE r \in storeKeystrokeModel({}, origin, username, modelData) : TRUE

VoiceRecord(origin, username, voiceProfile) ==
    CHOOSE r \in storeVoiceModel({}, origin, username, voiceProfile) : TRUE

\* what a failed store call leaves behind: the error its promise rejected
\* with, and the record the store held under the id when it failed
Rejected(call, id, error, previous) ==
    [to |-> [type |-> call], id |-> id, rejected |-> error, previous |-> previous]

\* the call up to the record literal: generateHMAC rejects (JSON.stringify or
\* crypto.subtle throws) or the record is built with its tag
BeginStoreKeystrokeModel ==
    \E pair \in StoragePairs, modelData \in ModelDatas, hmacFails \in BOOLEAN :
        /\ Cardinality(pending) < MaxPending
        /\ IF hmacFails
           THEN /\ response' = Rejected("storeKeystrokeModel", KeystrokeId(pair[1], pair[2]), "hmac",
                                         Get(keystrokeModels, KeystrokeId(pair[1], pair[2])))
                /\ UNCHANGED pending
           ELSE /\ pending' = pending \cup {[call |-> "storeKeystrokeModel",
                                             record |-> KeystrokeRecord(pair[1], pair[2], modelData)]}
                /\ UNCHANGED response
        /\ UNCHANGED <<keystrokeModels, voiceModels, trainingSamples, globalSettings, trainCalls>>
        /\ UNCHANGED <<keyVars, libVars, submitted, voiceVars, contentVars, listenerVars, raceVars, historyVars, timerVars, hookVars>>

BeginStoreVoiceModel ==
    \E pair \in {P1} : \E voiceProfile \in VoiceProfiles(pair[2]) \cup RewrittenVoiceProfiles(pair[2]) :
    \E hmacFails \in BOOLEAN :
        /\ Cardinality(pending) < MaxPending
        /\ IF hmacFails
           THEN /\ response' = Rejected("storeVoiceModel", VoiceId(pair[1], pair[2]), "hmac",
                                         Get(voiceModels, VoiceId(pair[1], pair[2])))
                /\ UNCHANGED pending
           ELSE /\ pending' = pending \cup {[call |-> "storeVoiceModel",
                                             record |-> VoiceRecord(pair[1], pair[2], voiceProfile)]}
                /\ UNCHANGED response
        /\ UNCHANGED <<keystrokeModels, voiceModels, trainingSamples, globalSettings, trainCalls>>
        /\ UNCHANGED <<keyVars, libVars, submitted, voiceVars, contentVars, listenerVars, raceVars, historyVars, timerVars, hookVars>>

\* the promise around store.put(record): onsuccess resolves with the key,
\* onerror rejects
PutKeystrokeModel ==
    \E w \in pending, putFails \in BOOLEAN :
        /\ w.call = "storeKeystrokeModel"
        /\ pending' = pending \ {w}
        /\ IF putFails
           THEN /\ keystrokeModels' = PutAborted(keystrokeModels, w.record)
                /\ response' = Rejected(w.call, w.record.id, "put", Get(keystrokeModels, w.record.id))
           ELSE /\ keystrokeModels' = Put(keystrokeModels, w.record)
                /\ response' = Stored(w.call, w.record.id, Get(keystrokeModels, w.record.id) # {})
        /\ UNCHANGED <<voiceModels, trainingSamples, globalSettings, trainCalls>>
        /\ UNCHANGED <<keyVars, libVars, submitted, voiceVars, contentVars, listenerVars, raceVars, historyVars, timerVars, hookVars>>

PutVoiceModel ==
    \E w \in pending, putFails \in BOOLEAN :
        /\ w.call = "storeVoiceModel"
        /\ pending' = pending \ {w}
        /\ IF putFails
           THEN /\ voiceModels' = PutAborted(voiceModels, w.record)
                /\ response' = Rejected(w.call, w.record.id, "put", Get(voiceModels, w.record.id))
           ELSE /\ voiceModels' = Put(voiceModels, w.record)
                /\ response' = Stored(w.call, w.record.id, Get(voiceModels, w.record.id) # {})
        /\ UNCHANGED <<keystrokeModels, trainingSamples, globalSettings, trainCalls>>
        /\ UNCHANGED <<keyVars, libVars, submitted, voiceVars, contentVars, listenerVars, raceVars, historyVars, timerVars, hookVars>>

NextWrites ==
    \/ BeginStoreKeystrokeModel
    \/ BeginStoreVoiceModel
    \/ PutKeystrokeModel
    \/ PutVoiceModel

SpecWrites == Init /\ [][NextWrites]_vars

----------------------------------------------------------------------------
(* KeystrokeAnalyzer: capture and feature extraction *)

PASSWORD_LENGTH == 11

\* a JavaScript number that is the quotient of two integers, or its square root
Rat(n, d) == [num |-> n, den |-> d]
Sqrt(q) == [sqrt |-> q]

ignoredKeys ==
    {"Shift", "Control", "Alt", "Meta", "CapsLock", "Tab", "Escape",
     "ArrowUp", "ArrowDown", "ArrowLeft", "ArrowRight",
     "Home", "End", "PageUp", "PageDown", "Insert", "Delete",
     "F1", "F2", "F3", "F4", "F5", "F6", "F7", "F8", "F9", "F10", "F11", "F12"}

KeystrokeEvent(key, type, timestamp) == [key |-> key, type |-> type, timestamp |-> timestamp]

captureKeystroke(data, key, type, now) ==
    IF key \in ignoredKeys THEN data ELSE Append(data, KeystrokeEvent(key, type, now))

RECURSIVE SumSeq(_)
SumSeq(s) == IF s = <<>> THEN 0 ELSE Head(s) + SumSeq(Tail(s))

Max2(a, b) == IF a >= b THEN a ELSE b

\* s.slice(0, n)
Slice(s, n) == SubSeq(s, 1, IF n < Len(s) THEN n ELSE Len(s))

\* a search that takes the first later release of any key
FindUpOfAnyKey(keyups, key, downTs) ==
    LET hits == {i \in 1..Len(keyups) : keyups[i].timestamp > downTs}
    IN IF hits = {} THEN 0 ELSE CHOOSE i \in hits : \A j \in hits : i <= j

\* keyups.find(u => u.key === key && u.timestamp > downTs): its position, 0 if none
FindUp(keyups, key, downTs) ==
    LET hits == {i \in 1..Len(keyups) : keyups[i].key = key /\ keyups[i].timestamp > downTs}
    IN IF hits = {} THEN 0 ELSE CHOOSE i \in hits : \A j \in hits : i <= j

RECURSIVE HoldTimes(_, _)
HoldTimes(matchedKeys, keyups) ==
    IF matchedKeys = <<>> THEN <<>>
    ELSE LET down == Head(matchedKeys)
             up == FindUp(keyups, down.key, down.timestamp)
             rest == HoldTimes(Tail(matchedKeys), keyups)
         IN IF up = 0 THEN rest ELSE <<keyups[up].timestamp - down.timestamp>> \o rest

DdTimes(matchedKeys) ==
    [i \in 1..(Len(matchedKeys) - 1) |-> matchedKeys[i + 1].timestamp - matchedKeys[i].timestamp]

UdTimes(matchedKeys, keyups) ==
    [i \in 1..(Len(matchedKeys) - 1) |->
        LET up == FindUp(keyups, matchedKeys[i].key, matchedKeys[i].timestamp)
        IN IF up # 0
           THEN matchedKeys[i + 1].timestamp - keyups[up].timestamp
           ELSE matchedKeys[i + 1].timestamp - matchedKeys[i].timestamp]

\* new ExtractedFeatures()
EmptyFeatures ==
    [holdTimes |-> <<>>, ddTimes |-> <<>>, udTimes |-> <<>>,
     typingSpeed |-> Rat(0, 1), flightTime |-> Rat(0, 1), errorRate |-> Rat(0, 1),
     pressPressure |-> Rat(0, 1), features |-> <<>>]

extractFeatures(data) ==
    IF Len(data) = 0 THEN EmptyFeatures
    ELSE
    LET keydowns == SelectSeq(data, LAMBDA k : k.type = "keydown")
        keyups == SelectSeq(data, LAMBDA k : k.type = "keyup")
        holdTimes == HoldTimes(keydowns, keyups)
        ddTimes == DdTimes(keydowns)
        udTimes == UdTimes(keydowns, keyups)
        maxTime == Max2(SumSeq(holdTimes), Max2(SumSeq(ddTimes), SumSeq(udTimes)))
        \* Math.max(...) || 0.001, in microseconds
        totalTime == IF maxTime = 0 THEN 1 ELSE maxTime * 1000
        typingSpeed == Rat(Len(keydowns) * 1000000, totalTime)
        flightTime == IF Len(udTimes) > 0 THEN Rat(SumSeq(udTimes), Len(udTimes)) ELSE Rat(0, 1)
        errorRate == Rat(Len(SelectSeq(data, LAMBDA k : k.key = "Backspace")), 1)
        n == Len(holdTimes)
        \* sum of (t - mean)^2 over n, with mean = sum / n
        pressPressure ==
            IF n > 0
            THEN Sqrt(Rat(SumSeq([i \in 1..n |->
                              (n * holdTimes[i] - SumSeq(holdTimes))
                              * (n * holdTimes[i] - SumSeq(holdTimes))]),
                          n * n * n))
            ELSE Rat(0, 1)
        Times(s) == [i \in 1..Len(s) |-> Rat(s[i], 1)]
        featureVector ==
            Times(Slice(holdTimes, PASSWORD_LENGTH))
            \o Times(Slice(ddTimes, PASSWORD_LENGTH - 1))
            \o Times(Slice(udTimes, PASSWORD_LENGTH - 1))
            \o <<typingSpeed, flightTime, errorRate, pressPressure>>
        padded ==
            IF Len(featureVector) < PASSWORD_LENGTH * 3 + 1
            THEN featureVector
                 \o [i \in 1..(PASSWORD_LENGTH * 3 + 1 - Len(featureVector)) |-> Rat(0, 1)]
            ELSE featureVector
    IN [holdTimes |-> holdTimes, ddTimes |-> ddTimes, udTimes |-> udTimes,
        typingSpeed |-> typingSpeed, flightTime |-> flightTime, errorRate |-> errorRate,
        pressPressure |-> pressPressure, features |-> padded]

\* The typist: keys are struck one after the other; a key is released right
\* after it is pressed or its release is never seen.
Keys == {"a", "Backspace"}

Presses(data) == Len(SelectSeq(data, LAMBDA k : k.type = "keydown"))

BackspacePresses(data) ==
    Len(SelectSeq(data, LAMBDA k : k.type = "keydown" /\ k.key = "Backspace"))

\* the last event is a press: that key is down
Held(data) == data # <<>> /\ data[Len(data)].type = "keydown"

\* presses followed by another press
Unreleased(data) ==
    Cardinality({i \in 1..(Len(data) - 1) :
                    data[i].type = "keydown" /\ data[i + 1].type = "keydown"})

CaptureKeydown ==
    \E key \in Keys :
        /\ Presses(keystrokeData) < MaxKeys
        /\ key = "Backspace" => BackspacePresses(keystrokeData) < MaxBackspaces
        /\ Held(keystrokeData) => Unreleased(keystrokeData) < MaxUnreleased
        /\ keystrokeData' = captureKeystroke(keystrokeData, key, "keydown", clock + 1)
        /\ clock' = clock + 1
        /\ extracted' = Undefined
        /\ UNCHANGED <<storeVars, submitted, libVars, writeVars, voiceVars, contentVars, listenerVars, raceVars, historyVars, timerVars, hookVars>>

CaptureKeyup ==
    /\ Held(keystrokeData)
    /\ keystrokeData' = captureKeystroke(keystrokeData, keystrokeData[Len(keystrokeData)].key,
                                         "keyup", clock + 1)
    /\ clock' = clock + 1
    /\ extracted' = Undefined
    /\ UNCHANGED <<storeVars, submitted, libVars, writeVars, voiceVars, contentVars, listenerVars, raceVars, historyVars, timerVars, hookVars>>

\* an event of an ignored key: time passes, nothing is captured
CaptureIgnored ==
    \E type \in {"keydown", "keyup"} :
        /\ clock - Len(keystrokeData) < MaxIgnored
        /\ keystrokeData' = captureKeystroke(keystrokeData, "Shift", type, clock + 1)
        /\ clock' = clock + 1
        /\ UNCHANGED extracted
        /\ UNCHANGED <<storeVars, submitted, libVars, writeVars, voiceVars, contentVars, listenerVars, raceVars, historyVars, timerVars, hookVars>>

ExtractFeatures ==
    /\ extracted' = extractFeatures(keystrokeData)
    /\ UNCHANGED <<keystrokeData, clock>>
    /\ UNCHANGED <<storeVars, submitted, libVars, writeVars, voiceVars, contentVars, listenerVars, raceVars, historyVars, timerVars, hookVars>>

resetCapture ==
    /\ keystrokeData' = <<>>
    /\ clock' = 0
    /\ extracted' = Undefined
    /\ UNCHANGED <<storeVars, submitted, libVars, writeVars, voiceVars, contentVars, listenerVars, raceVars, historyVars, timerVars, hookVars>>

NextKeys ==
    \/ CaptureKeydown
    \/ CaptureKeyup
    \/ CaptureIgnored
    \/ ExtractFeatures
    \/ resetCapture

SpecKeys == Init /\ [][NextKeys]_vars

\* Any sequence of key events: presses and releases of the keys in any order
\* (rollover, auto-repeat, a release whose press was not seen), two events
\* possibly within one tick of the clock performance.now() reads.
MaxEvents == 4

KeyEvent ==
    \E key \in Keys, type \in {"keydown", "keyup"}, elapsed \in {0, 1} :
        /\ Len(keystrokeData) < MaxEvents
        /\ keystrokeData' = captureKeystroke(keystrokeData, key, type, clock + elapsed)
        /\ clock' = clock + elapsed
        /\ extracted' = Undefined
        /\ UNCHANGED <<storeVars, submitted, libVars, writeVars, voiceVars, contentVars, listenerVars, raceVars, historyVars, timerVars, hookVars>>

NextEvents ==
    \/ KeyEvent
    \/ ExtractFeatures
    \/ resetCapture

SpecEvents == Init /\ [][NextEvents]_vars

----------------------------------------------------------------------------
(* The similarity score as a function of two aggregated feature sets *)

MaxMfccLength == 2     \* mean cepstral vectors have up to this many coefficients
MaxCoefficient == 2    \* each of them is one of 0..MaxCoefficient

MfccMeans ==
    UNION {[1..n -> {FromInt(c) : c \in 0..MaxCoefficient}] : n \in 0..MaxMfccLength}

\* new AggregatedVoiceFeatures() with the fields the score reads filled in
AggregatedVoiceFeatures ==
    [mfccMean : MfccMeans,
     spectralCentroidMean : {FromInt(0), FromInt(1)},
     spectralFlatnessMean : {FromInt(0)},
     spectralRolloffMean : {FromInt(0)},
     zcrMean : {FromInt(0)},
     rmsMean : {FromInt(0), FromInt(1)},
     energyMean : {FromInt(0)}]

\* one call of the function; it reads and writes nothing but its arguments,
\* so a behaviour holds a single call
CalculateSimilarityScore ==
    \E features1 \in AggregatedVoiceFeatures, features2 \in AggregatedVoiceFeatures :
        /\ score = Undefined
        /\ score' = [features1 |-> features1, features2 |-> features2,
                     result |-> calculateSimilarityScore(features1, features2)]
        /\ UNCHANGED <<storeVars, submitted, keyVars, libVars, writeVars, contentVars, listenerVars, raceVars, historyVars, timerVars, hookVars>>

NextSimilarity == CalculateSimilarityScore

SpecSimilarity == Init /\ [][NextSimilarity]_vars

----------------------------------------------------------------------------
(* RuntimeAPI, the on-device implementation: voiceRegister and voiceVerify *)

MaxVoiceSamples == 3   \* voiceRegister is called with up to this many recordings

\* const origin = "app://ghost-key"
AppOrigin == <<"a", "p", "p", ":", "/", "/", "g", "h", "o", "s", "t", "-", "k", "e", "y">>

\* what processVoiceAudio makes of the recordings: the aggregated features
\* of three utterances
Utterances ==
    {f \in AggregatedVoiceFeatures :
        /\ f.mfccMean \in {<<FromInt(1), FromInt(0)>>, <<FromInt(1), FromInt(1)>>,
                           <<FromInt(0), FromInt(1)>>}
        /\ f.spectralCentroidMean = Zero
        /\ f.rmsMean = Zero}

Recordings == UNION {[1..n -> Utterances] : n \in 0..MaxVoiceSamples}

\* the number n / 100 a setting holds, as the number arithmetic sees it
ToFloat(x) == FloatDiv(FromInt(x.fin), FromInt(100))

\* avg[i] += v[i] over the vectors, from the left
RECURSIVE SumAt(_, _, _)
SumAt(vectors, i, n) ==
    IF n = 0 THEN Zero ELSE FloatAdd(SumAt(vectors, i, n - 1), vectors[n][i])

\* Math.max(...numbers) of a non-empty list
RECURSIVE MaxOf(_, _)
MaxOf(numbers, n) ==
    IF n = 1 THEN numbers[1] ELSE FloatMax(MaxOf(numbers, n - 1), numbers[n])

Resolved(call, username, value) ==
    [to |-> [type |-> call, username |-> username], resolved |-> value]

voiceRegister(username, samples) ==
    /\ UNCHANGED <<keystrokeModels, trainingSamples, globalSettings, trainCalls>>
    /\ IF samples = <<>>
       THEN \* mfccMeans[0].length of an empty list: TypeError
            /\ response' = [to |-> [type |-> "voiceRegister", username |-> username],
                            rejected |-> "TypeError"]
            /\ UNCHANGED voiceModels
       ELSE LET mfccMeans == [k \in DOMAIN samples |-> samples[k].mfccMean]
                avg == [i \in 1..Len(mfccMeans[1]) |->
                           FloatDiv(SumAt(mfccMeans, i, Len(mfccMeans)), FromInt(Len(mfccMeans)))]
                voiceProfile == [template |-> avg, samples |-> samples]
            IN /\ voiceModels' = storeVoiceModel(voiceModels, AppOrigin, username, voiceProfile)
               /\ response' = Resolved("voiceRegister", username, TRUE)

voiceVerify(username, features) ==
    /\ UNCHANGED <<keystrokeModels, voiceModels, trainingSamples, globalSettings, trainCalls>>
    /\ LET voiceModel == getVoiceModel(voiceModels, AppOrigin, username) IN
       IF voiceModel = Null
       THEN response' = Resolved("voiceVerify", username, FALSE)
       ELSE LET comparisons == [k \in DOMAIN voiceModel.samples |->
                                   calculateSimilarityScore(voiceModel.samples[k], features)]
                best == MaxOf([k \in DOMAIN comparisons |-> comparisons[k].overallSimilarity],
                              Len(comparisons))
                threshold == ToFloat(Fin(75))
            IN response' = [to |-> [type |-> "voiceVerify", username |-> username],
                            resolved |-> ~FloatLess(best, threshold),
                            features |-> features,
                            best |-> best]

VoiceRegister ==
    \E username \in {UC}, samples \in Recordings :
        /\ voiceRegister(username, samples)
        /\ UNCHANGED <<keyVars, libVars, submitted, writeVars, voiceVars, contentVars, listenerVars, raceVars, historyVars, timerVars, hookVars>>

VoiceVerify ==
    \E username \in {UC}, features \in Utterances :
        /\ voiceVerify(username, features)
        /\ UNCHANGED <<keyVars, libVars, submitted, writeVars, voiceVars, contentVars, listenerVars, raceVars, historyVars, timerVars, hookVars>>

\* the voice threshold is configured
SetVoiceThreshold ==
    \E voiceThreshold \in {Fin(75), Fin(90)} :
        /\ handleSetSettings([requiredSamples |-> SAMPLES_REQUIRED, voiceThreshold |-> voiceThreshold])
        /\ UNCHANGED <<keyVars, libVars, submitted, writeVars, voiceVars, contentVars, listenerVars, raceVars, historyVars, timerVars, hookVars>>

NextRuntime ==
    \/ VoiceRegister
    \/ VoiceVerify
    \/ SetVoiceThreshold

SpecRuntime == Init /\ [][NextRuntime]_vars

----------------------------------------------------------------------------
(* Content script driven by the user and the background service worker *)

MaxTyped == 2          \* key events captured between two resets of the field,
                       \* and characters the field holds
MaxSubmissions == 5    \* submit events handled

\* window.location.origin and the value of the username field
currentSite == P1[1]
pageUsername == P1[2]

\* extractFeatures(keystrokes) of the content script: up to 11 hold times and
\* up to 10 down-down times, padded with zeros to 34 entries
contentExtractFeatures(keystrokes) ==
    IF Len(keystrokes) = 0 THEN Arr(<<>>)
    ELSE LET keydowns == SelectSeq(keystrokes, LAMBDA k : k.type = "keydown")
             keyups == SelectSeq(keystrokes, LAMBDA k : k.type = "keyup")
             holdTimes == HoldTimes(keydowns, keyups)
             ddTimes == DdTimes(keydowns)
             features == Slice(holdTimes, 11) \o Slice(ddTimes, 10)
         IN Arr([i \in 1..(IF Len(features) < 34 THEN 34 ELSE Len(features)) |->
                    IF i <= Len(features) THEN Fin(features[i]) ELSE Fin(0)])

\* handleKeystroke(event, type, fieldData); the browser puts the character
\* of a printable key into the field when the key goes down
ContentKeys == {"a", "Shift"}

handleKeystroke(key, type, now) ==
    fieldData' = [fieldData EXCEPT
                     !.keystrokes = Append(@, [key |-> key, type |-> type, timestamp |-> now]),
                     !.isCapturing = TRUE,
                     !.value = IF key \notin ignoredKeys /\ type = "keydown"
                               THEN Append(@, key) ELSE @]

\* performance.now() at an event: not before the event captured last
HandleKeystroke ==
    \E key \in ContentKeys, type \in {"keydown", "keyup"}, elapsed \in {0, 1} :
        /\ Len(fieldData.keystrokes) < MaxTyped
        /\ Len(fieldData.value) < MaxTyped
        /\ handleKeystroke(key, type,
                           IF fieldData.keystrokes = <<>> THEN elapsed
                           ELSE fieldData.keystrokes[Len(fieldData.keystrokes)].timestamp + elapsed)
        /\ UNCHANGED <<page, keyVars>>
        /\ UNCHANGED <<storeVars, submitted, libVars, writeVars, voiceVars, listenerVars, raceVars, historyVars, timerVars, hookVars>>

\* the focus listener: resetCapture(fieldData)
FocusPasswordField ==
    /\ fieldData' = [fieldData EXCEPT !.keystrokes = <<>>, !.isCapturing = FALSE]
    /\ UNCHANGED <<page, keyVars>>
    /\ UNCHANGED <<storeVars, submitted, libVars, writeVars, voiceVars, listenerVars, raceVars, historyVars, timerVars, hookVars>>

\* A submit event is dispatched to the form.  handleSubmit runs up to its
\* first await and returns a promise; the dispatch ends, and the browser
\* sends the form unless the event was canceled by then.
SubmitForm ==
    /\ page.handler = "idle"
    /\ page.submissions < MaxSubmissions
    /\ IF fieldData.value = <<>> \/ Len(fieldData.keystrokes) = 0
       THEN page' = [page EXCEPT !.defaultPrevented = FALSE, !.formSubmitted = TRUE]
       ELSE LET features == contentExtractFeatures(fieldData.keystrokes) IN
            IF Len(features.array) = 0
            THEN page' = [page EXCEPT !.defaultPrevented = FALSE, !.formSubmitted = TRUE]
            ELSE page' = [page EXCEPT !.handler = "AUTH_CHECK",
                                      !.features = features,
                                      !.defaultPrevented = FALSE,
                                      !.formSubmitted = TRUE,
                                      !.submissions = @ + 1]
    /\ UNCHANGED <<fieldData, keyVars>>
    /\ UNCHANGED <<storeVars, submitted, libVars, writeVars, voiceVars, listenerVars, raceVars, historyVars, timerVars, hookVars>>

\* the background service worker answers the AUTH_CHECK of the page
AnswerAuthCheck ==
    \E dbError \in BOOLEAN :
        /\ page.handler = "AUTH_CHECK"
        /\ handleAuthCheck(currentSite, pageUsername, page.features, dbError)
        /\ page' = [page EXCEPT !.handler = "answered"]
        /\ UNCHANGED <<fieldData, keyVars>>
        /\ UNCHANGED <<submitted, libVars, writeVars, voiceVars, listenerVars, raceVars, historyVars, timerVars, hookVars>>

\* handleSubmit from the answer of AUTH_CHECK to its end, with the enrollment
\* dialog and startEnrollment (the TRAIN_MODEL message, its handling by the
\* background and the reading of its answer)
ResumeHandleSubmit ==
    /\ page.handler = "answered"
    /\ LET authResponse == Received(response.delivered) IN
       IF Truthy(Member(authResponse, "success")) /\ Truthy(Member(authResponse, "authenticated"))
       THEN /\ page' = [page EXCEPT !.handler = "idle"]
            /\ UNCHANGED <<fieldData, storeVars, submitted>>
       ELSE IF \* authResponse.reason && authResponse.reason.includes(...); the
               \* reasons of the model are cut to the text searched for
               /\ "reason" \in DOMAIN authResponse
               /\ authResponse.reason = "No biometric profile found"
       THEN \E shouldEnroll \in BOOLEAN :
               IF shouldEnroll
               THEN \E dbError \in BOOLEAN :
                    /\ handleTrainModel(currentSite, pageUsername, page.features, NumIdx(0), dbError)
                    /\ submitted' = IF dbError THEN submitted
                                    ELSE Submit(submitted, currentSite, pageUsername, NumIdx(0),
                                                page.features)
                    /\ LET trained == Received(response'.delivered) IN
                       IF Truthy(Member(trained, "success"))
                       THEN IF Truthy(Member(trained, "modelTrained"))
                            THEN \* fieldData.form.submit()
                                 /\ page' = [page EXCEPT !.handler = "idle",
                                                         !.defaultPrevented = TRUE,
                                                         !.formSubmitted = TRUE]
                                 /\ UNCHANGED fieldData
                            ELSE /\ page' = [page EXCEPT !.handler = "idle",
                                                         !.defaultPrevented = TRUE]
                                 /\ fieldData' = [fieldData EXCEPT !.value = <<>>]
                       ELSE /\ page' = [page EXCEPT !.handler = "idle", !.defaultPrevented = TRUE]
                            /\ UNCHANGED fieldData
               ELSE /\ page' = [page EXCEPT !.handler = "idle", !.declined = TRUE]
                    /\ UNCHANGED <<fieldData, storeVars, submitted>>
       ELSE \* event.preventDefault() of an event whose dispatch is over;
            \* passwordField.focus() runs the focus listener when the field
            \* had lost the focus
            \E refocus \in BOOLEAN :
               /\ page' = [page EXCEPT !.handler = "idle", !.defaultPrevented = TRUE]
               /\ fieldData' = IF refocus
                               THEN [fieldData EXCEPT !.value = <<>>, !.keystrokes = <<>>,
                                                      !.isCapturing = FALSE]
                               ELSE [fieldData EXCEPT !.value = <<>>]
               /\ UNCHANGED <<storeVars, submitted>>
    /\ UNCHANGED <<keyVars, libVars, writeVars, voiceVars, listenerVars, raceVars, historyVars, timerVars, hookVars>>

\* a profile of the 34-entry vectors of the content script
EnrolledProfile ==
    Profile(Fin(AUTOENCODER_THRESHOLD), Fin(2), Fin(1),
            [i \in 1..34 |-> Fin(0)], [i \in 1..34 |-> Fin(20)])

\* a profile is stored for the user of the page (storeKeystrokeModel called
\* by another part of the extension)
StoreProfile ==
    \E modelData \in {EnrolledProfile} :
        /\ keystrokeModels' = storeKeystrokeModel(keystrokeModels, currentSite, pageUsername, modelData)
        /\ response' = Stored("storeKeystrokeModel", KeystrokeId(currentSite, pageUsername),
                               Get(keystrokeModels, KeystrokeId(currentSite, pageUsername)) # {})
        /\ page.handler = "idle"
        /\ UNCHANGED <<voiceModels, trainingSamples, globalSettings, trainCalls>>
        /\ UNCHANGED <<keyVars, libVars, submitted, writeVars, voiceVars, contentVars, listenerVars, raceVars, historyVars, timerVars, hookVars>>

NextContent ==
    \/ HandleKeystroke
    \/ FocusPasswordField
    \/ SubmitForm
    \/ AnswerAuthCheck
    \/ ResumeHandleSubmit
    \/ StoreProfile

SpecContent == Init /\ [][NextContent]_vars

----------------------------------------------------------------------------
(* The autoencoder library on its own: trainKeystrokeModel applied to a     *)
(* list of feature vectors and authenticateWithModel applied to a vector    *)
(* and the profile that training returned.                                  *)

\* vectors a list handed to trainKeystrokeModel is made of: two lengths, and
\* one that holds a non-number
CorpusVectors == {Arr(<<Fin(10)>>), Arr(<<Fin(10), Fin(20)>>), Arr(<<NaN>>)}

\* vectors handed to authenticateWithModel
SampleVectors == {Arr(<<Fin(10)>>), Arr(<<Fin(10), Fin(20)>>)}

IsProfile(p) == "modelType" \in DOMAIN p

AddSample ==
    \E features \in CorpusVectors :
        /\ profile = Undefined
        /\ Len(corpus) < MaxCorpus
        /\ corpus' = Append(corpus, features)
        /\ UNCHANGED <<profile, authentication>>
        /\ UNCHANGED <<storeVars, submitted, keyVars, writeVars, voiceVars, contentVars, listenerVars, raceVars, historyVars, timerVars, hookVars>>

Train ==
    /\ profile = Undefined
    /\ profile' \in trainKeystrokeModel(corpus)
    /\ UNCHANGED <<corpus, authentication>>
    /\ UNCHANGED <<storeVars, submitted, keyVars, writeVars, voiceVars, contentVars, listenerVars, raceVars, historyVars, timerVars, hookVars>>

Authenticate ==
    \E features \in SampleVectors :
        /\ IsProfile(profile)
        /\ \E result \in authenticateWithModel(features, profile) :
              authentication' = [features |-> features, result |-> result]
        /\ UNCHANGED <<corpus, profile>>
        /\ UNCHANGED <<storeVars, submitted, keyVars, writeVars, voiceVars, contentVars, listenerVars, raceVars, historyVars, timerVars, hookVars>>

\* a new list is started
NewCorpus ==
    /\ corpus' = <<>>
    /\ profile' = Undefined
    /\ authentication' = Undefined
    /\ UNCHANGED <<storeVars, submitted, keyVars, writeVars, voiceVars, contentVars, listenerVars, raceVars, historyVars, timerVars, hookVars>>

NextAutoencoder ==
    \/ AddSample
    \/ Train
    \/ Authenticate
    \/ NewCorpus

SpecAutoencoder == Init /\ [][NextAutoencoder]_vars

----------------------------------------------------------------------------
(* Claims about the integrity store *)

\* the handler passed authenticated = true to the response callback
AnsweredAuthenticated(resp) ==
    /\ "args" \in DOMAIN resp
    /\ "authenticated" \in DOMAIN resp.args.data
    /\ resp.args.data.authenticated

\* C1: a keystroke or voice profile record whose payload was rewritten after
\* it was stored (its tag left as stored, so the payload differs from the one
\* the tag was computed over) is answered with null by getKeystrokeModel /
\* getVoiceModel, and the AUTH_CHECK / VOICE_CHECK that loads it is not
\* answered authenticated.  Records hold a payload of RewrittenModelDatas or
\* RewrittenVoiceProfiles only after RewriteKeystrokeRecord / RewriteVoiceRecord.
C1_TamperedRecordRejected ==
    /\ \A r \in keystrokeModels :
          r.modelData \in RewrittenModelDatas =>
             /\ getKeystrokeModel(keystrokeModels, r.origin, r.username) = Null
             /\ response.to = To("AUTH_CHECK", r.origin, r.username)
                   => ~AnsweredAuthenticated(response)
    /\ \A r \in voiceModels :
          r.voiceProfile \in RewrittenVoiceProfiles(r.username) =>
             /\ getVoiceModel(voiceModels, r.origin, r.username) = Null
             /\ response.to = To("VOICE_CHECK", r.origin, r.username)
                   => ~AnsweredAuthenticated(response)

\* C2: storing a keystroke model, a voice model or a training sample for one
\* (origin, username) never changes what is stored and returned for another.
C2_PairsIsolated ==
    [][\A p \in Pairs, q \in Pairs : p # q =>
         /\ (\E modelData \in ModelDatas :
                keystrokeModels' = storeKeystrokeModel(keystrokeModels, p[1], p[2], modelData))
               => getKeystrokeModel(keystrokeModels', q[1], q[2])
                    = getKeystrokeModel(keystrokeModels, q[1], q[2])
         /\ (\E voiceProfile \in VoiceProfiles(p[2]) :
                voiceModels' = storeVoiceModel(voiceModels, p[1], p[2], voiceProfile))
               => getVoiceModel(voiceModels', q[1], q[2])
                    = getVoiceModel(voiceModels, q[1], q[2])
         /\ (\E features \in KsFeatures, i \in SampleIdx :
                trainingSamples' = storeTrainingSample(trainingSamples, p[1], p[2], NumIdx(i),
                                       [features |-> features, privacyMode |-> FALSE]))
               => KeystrokeSamplesOf(trainingSamples', q[1], q[2])
                    = KeystrokeSamplesOf(trainingSamples, q[1], q[2])
      ]_vars

\* C3: once CLEAR_DATA of type 'user' is answered, no keystroke model, voice
\* model or training sample of that (origin, username) remains.
C3_UserDataCleared ==
    (response.to.type = "CLEAR_DATA" /\ "username" \in DOMAIN response.to) =>
        LET origin == response.to.origin
            username == response.to.username
        IN /\ getKeystrokeModel(keystrokeModels, origin, username) = Null
           /\ getVoiceModel(voiceModels, origin, username) = Null
           /\ getTrainingSamples(trainingSamples, origin, username) = {}
           /\ \A r \in keystrokeModels \cup voiceModels \cup trainingSamples :
                 ~(r.origin = origin /\ r.username = username)

\* C4: once CLEAR_DATA of type 'site' is answered, no record of that origin
\* remains in any store, whatever its username.
C4_SiteDataCleared ==
    (response.to.type = "CLEAR_DATA" /\ DOMAIN response.to = {"type", "origin"}) =>
        \A r \in keystrokeModels \cup voiceModels \cup trainingSamples :
            r.origin # response.to.origin

----------------------------------------------------------------------------
(* Claims about enrollment *)

\* the number of keystroke samples stored for a pair
SampleCount(store, pair) == Cardinality(KeystrokeSamplesOf(store, pair[1], pair[2]))

VoiceSampleCount(store, pair) == Cardinality(VoiceSamplesOf(store, pair[1], pair[2]))

\* the required sample count in force
RequiredSamples == getGlobalSettings(globalSettings).requiredSamples

\* every sample submitted since the last wipe was submitted for this pair
OnlySubmitter(pair) ==
    /\ submitted # {}
    /\ \A s \in submitted : s.origin = pair[1] /\ s.username = pair[2]

\* C6: after TRAIN_MODEL messages for one pair only, the store holds exactly
\* one keystroke sample per distinct sample index submitted, and the sample
\* at each index is the one submitted last for it: submitting an index again
\* overwrites and never adds a record.
C6_ResubmissionOverwrites ==
    \A pair \in Pairs :
        OnlySubmitter(pair) =>
            /\ {<<r.sampleIndex, r.sampleData.features>> :
                    r \in KeystrokeSamplesOf(trainingSamples, pair[1], pair[2])}
                 = {<<s.sampleIndex, s.features>> : s \in submitted}
            /\ SampleCount(trainingSamples, pair)
                 = Cardinality({s.sampleIndex : s \in submitted})

\* C6 witness: one pair has submitted several indices, one of them twice, and
\* the last TRAIN_MODEL was answered.
C6_Witness ==
    /\ OnlySubmitter(P1)
    /\ Cardinality(submitted) >= 2
    /\ \E s \in submitted : s.again
    /\ response.to = To("TRAIN_MODEL", P1[1], P1[2])
    /\ response.args.success

\* C7: a TRAIN_MODEL (TRAIN_VOICE) message for a pair never lowers the pair's
\* stored sample count, and once it has been answered with the required count
\* stored, the trainer has been invoked exactly once for the pair.
C7_TrainedExactlyOnce ==
    [][\A pair \in Pairs :
         /\ (response'.to = To("TRAIN_MODEL", pair[1], pair[2]) /\ response'.args.success) =>
               /\ SampleCount(trainingSamples', pair) >= SampleCount(trainingSamples, pair)
               /\ SampleCount(trainingSamples', pair) >= RequiredSamples
                     => trainCalls'.keystroke[pair] = 1
         /\ (response'.to = To("TRAIN_VOICE", pair[1], pair[2]) /\ response'.args.success) =>
               /\ VoiceSampleCount(trainingSamples', pair) >= VoiceSampleCount(trainingSamples, pair)
               /\ VoiceSampleCount(trainingSamples', pair) >= requiredVoiceSamples
                     => trainCalls'.voice[pair] = 1
      ]_vars

\* C8: when a TRAIN_MODEL message has been answered and the pair's stored
\* sample count is at the required count r, for r the default or a configured
\* value, a keystroke profile is stored for the pair and the answer says
\* modelTrained = true.
C8_ReachingRequiredTrains ==
    \A pair \in Pairs :
        (/\ response.to = To("TRAIN_MODEL", pair[1], pair[2])
         /\ response.args.success
         /\ SampleCount(trainingSamples, pair) >= RequiredSamples) =>
            /\ getKeystrokeModel(keystrokeModels, pair[1], pair[2]) # Null
            /\ "modelTrained" \in DOMAIN response.args.data
            /\ response.args.data.modelTrained

\* C9: a TRAIN_MODEL message answered while fewer than the required number of
\* samples are stored for the pair answers modelTrained = false with the
\* collected and the required count, and leaves the keystroke models unchanged.
C9_BelowRequiredReportsProgress ==
    [][\A pair \in Pairs :
         (/\ response'.to = To("TRAIN_MODEL", pair[1], pair[2])
          /\ response'.args.success
          /\ SampleCount(trainingSamples', pair) < RequiredSamples) =>
             /\ response'.args.data =
                   [modelTrained |-> FALSE,
                    sampleCount |-> SampleCount(trainingSamples', pair),
                    requiredSamples |-> RequiredSamples]
             /\ keystrokeModels' = keystrokeModels
      ]_vars

----------------------------------------------------------------------------
(* Claims about the checks *)

\* C10: a check that carries its data is answered with an accept/deny result:
\* the sender is delivered a response with the field authenticated, which is
\* false and comes with a reason whenever the check was answered unsuccessful.
C10_CheckDeliversResult ==
    (/\ response.to.type \in {"AUTH_CHECK", "VOICE_CHECK"}
     /\ response.args.data # NoData) =>
        /\ "authenticated" \in DOMAIN response.delivered
        /\ ~response.args.success =>
              /\ response.delivered.authenticated = FALSE
              /\ "reason" \in DOMAIN response.delivered

----------------------------------------------------------------------------
(* Claims about the keystroke features *)

\* C5: the feature vector that extractFeatures returned for a non-empty
\* keystroke sequence has exactly 3 * PASSWORD_LENGTH + 1 entries.
C5_FeatureVectorLength ==
    (extracted # Undefined /\ keystrokeData # <<>>) =>
        Len(extracted.features) = 3 * PASSWORD_LENGTH + 1

----------------------------------------------------------------------------
(* Claims about the checks and the stored profiles *)

\* the record stored under the id fails verifyHMAC
KeystrokeRecordFails(store, pair) ==
    \E r \in Get(store, KeystrokeId(pair[1], pair[2])) : ~verifyHMAC(r.modelData, r.signature)

VoiceRecordFails(store, pair) ==
    \E r \in Get(store, VoiceId(pair[1], pair[2])) : ~verifyHMAC(r.voiceProfile, r.signature)

\* what a check for an identity that never enrolled is answered: the missing
\* data answer, the no-profile answer, or the failure answer when the load
\* itself rejects
NeverEnrolledAnswers(type, pair, missing, noProfile, failed) ==
    {ChromeSendResponse(To(type, pair[1], pair[2]), FALSE, NoData, missing),
     ChromeSendResponse(To(type, pair[1], pair[2]), FALSE,
                        [authenticated |-> FALSE, reason |-> noProfile], ""),
     ChromeSendResponse(To(type, pair[1], pair[2]), FALSE,
                        [authenticated |-> FALSE, reason |-> failed], "")}

\* C11: an identity whose stored record fails its integrity check is loaded
\* as null, exactly as an identity under whose id nothing is stored, and the
\* AUTH_CHECK / VOICE_CHECK for it is answered with one of the answers given
\* for a never-enrolled identity (never with a verification result).
C11_FailedRecordAnsweredAsNeverEnrolled ==
    \A pair \in Pairs :
        /\ (KeystrokeRecordFails(keystrokeModels, pair)
               \/ Get(keystrokeModels, KeystrokeId(pair[1], pair[2])) = {}) =>
              /\ getKeystrokeModel(keystrokeModels, pair[1], pair[2]) = Null
              /\ response.to = To("AUTH_CHECK", pair[1], pair[2]) =>
                    response \in NeverEnrolledAnswers("AUTH_CHECK", pair,
                                     "Missing required authentication data",
                                     "No biometric profile found", "Authentication failed")
        /\ (VoiceRecordFails(voiceModels, pair)
               \/ Get(voiceModels, VoiceId(pair[1], pair[2])) = {}) =>
              /\ getVoiceModel(voiceModels, pair[1], pair[2]) = Null
              /\ response.to = To("VOICE_CHECK", pair[1], pair[2]) =>
                    response \in NeverEnrolledAnswers("VOICE_CHECK", pair,
                                     "Missing required voice authentication data",
                                     "No voice profile found", "Voice authentication failed")

\* an AUTH_CHECK for a pair whose record fails the check was answered with
\* the no-profile answer
C11_Witness ==
    /\ KeystrokeRecordFails(keystrokeModels, P1)
    /\ response.to = To("AUTH_CHECK", P1[1], P1[2])
    /\ response.args.data = [authenticated |-> FALSE, reason |-> "No biometric profile found"]

\* C12: a step in which an AUTH_CHECK or a VOICE_CHECK is answered, whatever
\* the answer (missing data, load failure, no profile, verifier error, accept
\* or deny), leaves the three object stores and the settings as they were.
C12_ChecksLeaveStateUnchanged ==
    [][response'.to.type \in {"AUTH_CHECK", "VOICE_CHECK"} =>
          UNCHANGED <<keystrokeModels, voiceModels, trainingSamples, globalSettings>>]_vars

\* an AUTH_CHECK was answered authenticated while profiles, a sample and
\* settings were stored
C12_Witness ==
    /\ response.to.type = "AUTH_CHECK"
    /\ AnsweredAuthenticated(response)
    /\ keystrokeModels # {}
    /\ voiceModels # {}
    /\ trainingSamples # {}
    /\ globalSettings # Unset

----------------------------------------------------------------------------
(* Claims about the autoencoder library *)

\* authenticateWithModel returned a result for the vector
Authenticated ==
    /\ authentication # Undefined
    /\ authentication.result # Throw

\* C13: authenticateWithModel returns authenticated = true exactly when the
\* reconstruction error is a number not above the profile's threshold: an
\* error equal to the threshold is accepted, a NaN error is rejected, and
\* success equals authenticated in every result.
C13_AcceptedIffErrorWithinThreshold ==
    Authenticated =>
        LET result == authentication.result
            error == result.reconstructionError
        IN /\ result.threshold = profile.threshold
           /\ result.authenticated <=>
                  /\ IsFin(error)
                  /\ \/ result.threshold = Infinity
                     \/ IsFin(result.threshold) /\ error.fin <= result.threshold.fin
           /\ error = NaN => ~result.authenticated
           /\ error = result.threshold => result.authenticated
           /\ result.success = result.authenticated

\* a sample whose error equals the threshold was accepted
C13_Witness ==
    /\ Authenticated
    /\ authentication.result.reconstructionError = profile.threshold
    /\ authentication.result.authenticated

\* C14: whatever the length of the vector given to authenticateWithModel,
\* the normalized vector fed to the network has exactly the length the
\* profile stores (extra entries dropped, missing entries filled with 0)
\* and all its entries are numbers.
C14_NormalizedVectorHasProfileLength ==
    Authenticated =>
        LET normalized == normalizedFeatures(authentication.features, profile) IN
        /\ Len(normalized) = profile.autoencoder.inputSize
        /\ Len(normalized) = Len(profile.normalizationParams.min.array)
        /\ \A i \in DOMAIN normalized : IsFin(normalized[i])

\* C15: a profile that trainKeystrokeModel returned was trained on vectors
\* of one length, the profile's input size; a list whose vectors differ in
\* length yields no profile.
C15_ProfileFromEqualLengthVectors ==
    IsProfile(profile) =>
        \A k \in DOMAIN corpus : Len(corpus[k].array) = profile.autoencoder.inputSize

\* C16: the threshold of every profile trainKeystrokeModel returns is a
\* number not below AUTOENCODER_THRESHOLD, also when the percentile entry of
\* the sorted errors is missing, zero or NaN.
C16_ThresholdAtLeastFloor ==
    IsProfile(profile) =>
        /\ profile.threshold # NaN
        /\ JsLe(Fin(AUTOENCODER_THRESHOLD), profile.threshold)

\* a profile was returned from a run whose errors were all NaN, with the
\* floor as its threshold
C16_Witness ==
    /\ IsProfile(profile)
    /\ profile.autoencoder.weights = NaN
    /\ profile.trainingStats.maxError = NaN
    /\ profile.threshold = Fin(AUTOENCODER_THRESHOLD)

\* C17: for a list of n >= 5 vectors, whatever errors the run computes for
\* them, the threshold is the larger of the floor and the entry
\* floor(0.95 * n) of the errors in ascending order, and at least 95% of the
\* n errors are not above the threshold.
C17_ThresholdCoversTrainingErrors ==
    IsProfile(profile) =>
        \A errors \in ReconstructionErrorLists(corpus) :
        \A threshold \in Threshold(errors) :
            LET n == Len(errors)
                below(v) == {k \in DOMAIN errors : JsLe(errors[k], v) /\ errors[k] # v}
                upTo(v) == {k \in DOMAIN errors : JsLe(errors[k], v)}
            IN /\ n >= SAMPLES_REQUIRED
               /\ \E k \in DOMAIN errors :
                     /\ Cardinality(below(errors[k])) <= (95 * n) \div 100
                     /\ Cardinality(upTo(errors[k])) > (95 * n) \div 100
                     /\ threshold = MathMax(errors[k], Fin(AUTOENCODER_THRESHOLD))
               /\ 100 * Cardinality(upTo(threshold)) >= 95 * n

\* C19: a profile that training hands over for storing holds finite numbers
\* only (threshold, error statistics, weights, minima and maxima); a run
\* that produced a non-finite value ends in failure, not in a profile.
C19_ProfileHasOnlyFiniteNumbers ==
    IsProfile(profile) =>
        /\ IsFin(profile.threshold)
        /\ IsFin(profile.trainingStats.maxError)
        /\ IsFin(profile.autoencoder.weights)
        /\ \A i \in DOMAIN profile.normalizationParams.min.array :
              /\ IsFin(profile.normalizationParams.min.array[i])
              /\ IsFin(profile.normalizationParams.max.array[i])

----------------------------------------------------------------------------
(* Claims about enrollment *)

\* C18: a TRAIN_MODEL whose sample count reached the required count and
\* whose training throws (trainKeystrokeModel is handed fewer than
\* SAMPLES_REQUIRED vectors) writes nothing to the keystroke-model store,
\* keeps every stored sample, its own included, is answered unsuccessful,
\* and leaves the count reached, so that the next TRAIN_MODEL trains again.
C18_FailedTrainingKeepsState ==
    [][\A pair \in Pairs :
          (/\ response'.to = To("TRAIN_MODEL", pair[1], pair[2])
           /\ trainCalls'["keystroke"][pair] > trainCalls["keystroke"][pair]
           /\ Cardinality(getTrainingSamples(trainingSamples', pair[1], pair[2]))
                  < SAMPLES_REQUIRED) =>
              /\ keystrokeModels' = keystrokeModels
              /\ \A r \in trainingSamples : \E kept \in trainingSamples' : kept.id = r.id
              /\ KeystrokeSamplesOf(trainingSamples', pair[1], pair[2]) # {}
              /\ ~response'.args.success
              /\ response'.delivered = [boolean |-> FALSE]
              /\ Cardinality(getTrainingSamples(trainingSamples', pair[1], pair[2]))
                    >= getGlobalSettings(globalSettings').requiredSamples]_vars

\* training was invoked a second time after it had failed, with a profile
\* of the pair in the store, and failed again
C18_Witness ==
    /\ response.to = To("TRAIN_MODEL", P1[1], P1[2])
    /\ ~response.args.success
    /\ trainCalls["keystroke"][P1] = 2
    /\ KeystrokeSamplesOf(trainingSamples, P1[1], P1[2]) # {}
    /\ getKeystrokeModel(keystrokeModels, P1[1], P1[2]) # Null

----------------------------------------------------------------------------
(* Claims about re-training *)

\* C20: storing a profile for a pair that already has a profile record
\* leaves exactly one record under the pair's id, with the pair's names, the
\* new payload in full and a tag that verifies it; the number of records in
\* the store does not change.  The same for voice profiles.
C20_RetrainingReplacesProfile ==
    [][/\ \A pair \in Pairs : \A modelData \in ModelDatas :
            (/\ Get(keystrokeModels, KeystrokeId(pair[1], pair[2])) # {}
             /\ response'.to.type = "storeKeystrokeModel"
             /\ keystrokeModels' = storeKeystrokeModel(keystrokeModels, pair[1], pair[2], modelData)) =>
                /\ Cardinality(keystrokeModels') = Cardinality(keystrokeModels)
                /\ \E r \in keystrokeModels' :
                      /\ Get(keystrokeModels', KeystrokeId(pair[1], pair[2])) = {r}
                      /\ r.origin = pair[1] /\ r.username = pair[2]
                      /\ r.modelData = modelData
                      /\ verifyHMAC(r.modelData, r.signature)
       /\ \A pair \in Pairs : \A voiceProfile \in VoiceProfiles(pair[2]) :
            (/\ Get(voiceModels, VoiceId(pair[1], pair[2])) # {}
             /\ response'.to.type = "storeVoiceModel"
             /\ voiceModels' = storeVoiceModel(voiceModels, pair[1], pair[2], voiceProfile)) =>
                /\ Cardinality(voiceModels') = Cardinality(voiceModels)
                /\ \E r \in voiceModels' :
                      /\ Get(voiceModels', VoiceId(pair[1], pair[2])) = {r}
                      /\ r.origin = pair[1] /\ r.username = pair[2]
                      /\ r.voiceProfile = voiceProfile
                      /\ verifyHMAC(r.voiceProfile, r.signature)]_vars

\* a keystroke profile was stored over an existing record of the pair
C20_Witness ==
    /\ response.to.type = "storeKeystrokeModel"
    /\ response.replaced
    /\ response.resolved = KeystrokeId(P1[1], P1[2])
    /\ Cardinality(Get(keystrokeModels, KeystrokeId(P1[1], P1[2]))) = 1

----------------------------------------------------------------------------
(* Claims about the extracted timing features *)

\* C26: the errorRate that extractFeatures returns is the number of
\* Backspace presses (keydown events) in the captured sequence: a Backspace
\* pressed and released once counts as one correction.
C26_ErrorRateCountsBackspacePresses ==
    extracted # Undefined =>
        extracted.errorRate = Rat(BackspacePresses(keystrokeData), 1)
\* C29: every press that has a later release of the same key yields exactly
\* one hold time, the timestamp of the earliest such release minus the
\* timestamp of the press; a press with no later release of its key yields
\* none; the hold times come in the order of the presses.
LaterReleases(data, i) ==
    {j \in 1..Len(data) : /\ data[j].type = "keyup"
                          /\ data[j].key = data[i].key
                          /\ data[j].timestamp > data[i].timestamp}

EarliestRelease(data, i) ==
    CHOOSE j \in LaterReleases(data, i) :
        \A k \in LaterReleases(data, i) : data[j].timestamp <= data[k].timestamp

RECURSIVE HoldTimesFrom(_, _)
HoldTimesFrom(data, i) ==
    IF i > Len(data) THEN <<>>
    ELSE IF data[i].type = "keydown" /\ LaterReleases(data, i) # {}
         THEN <<data[EarliestRelease(data, i)].timestamp - data[i].timestamp>>
              \o HoldTimesFrom(data, i + 1)
         ELSE HoldTimesFrom(data, i + 1)

C29_HoldTimePerReleasedPress ==
    extracted # Undefined => extracted.holdTimes = HoldTimesFrom(keystrokeData, 1)

\* features were extracted from a sequence with a key released after another
\* event (rollover) and a press whose release was never seen
C29_Witness ==
    /\ extracted # Undefined
    /\ \E i \in 1..Len(keystrokeData) :
          /\ keystrokeData[i].type = "keydown"
          /\ LaterReleases(keystrokeData, i) = {}
    /\ \E i \in 1..Len(keystrokeData) :
          /\ keystrokeData[i].type = "keydown"
          /\ LaterReleases(keystrokeData, i) # {}
          /\ EarliestRelease(keystrokeData, i) > i + 1
    /\ Len(extracted.holdTimes) >= 1
----------------------------------------------------------------------------
(* Claims about the samples a training request uses *)

----------------------------------------------------------------------------
(* Claims about failing store calls *)

\* the records the store calls build: payload and tag of one call
WholeKeystrokeRecords ==
    {KeystrokeRecord(pair[1], pair[2], modelData) : pair \in StoragePairs, modelData \in ModelDatas}

WholeVoiceRecords ==
    {VoiceRecord(P1[1], P1[2], voiceProfile) :
        voiceProfile \in VoiceProfiles(P1[2]) \cup RewrittenVoiceProfiles(P1[2])}

\* C21: storeKeystrokeModel and storeVoiceModel are atomic with respect to
\* failure.  When the tag generation or the put of a call fails, the store
\* holds under the id what it held before, and that record still passes the
\* tag check of the load; and every record in the stores carries the payload
\* and the tag of one and the same call, whatever calls are in flight.
C21_StoreCallsAtomic ==
    /\ keystrokeModels \subseteq WholeKeystrokeRecords
    /\ voiceModels \subseteq WholeVoiceRecords
    /\ \A r \in keystrokeModels : verifyHMAC(r.modelData, r.signature)
    /\ \A r \in voiceModels : verifyHMAC(r.voiceProfile, r.signature)
    /\ "rejected" \in DOMAIN response =>
          Get(IF response.to.type = "storeKeystrokeModel" THEN keystrokeModels ELSE voiceModels,
              response.id) = response.previous

\* a put failed for an id under which the store held the record of an
\* earlier call, while another call for that id, with another record, is in
\* flight
C21_Witness ==
    /\ "rejected" \in DOMAIN response
    /\ response.rejected = "put"
    /\ response.to.type = "storeKeystrokeModel"
    /\ response.previous # {}
    /\ \E w \in pending : w.record.id = response.id /\ w.record \notin response.previous
----------------------------------------------------------------------------
(* Claims about the voice similarity score *)

NotAllZero(vector) == \E i \in DOMAIN vector : vector[i] # Zero

\* C24: the score of a feature set against itself is exactly 1 whenever its
\* mean cepstral vector is not all zero.
C24_SelfSimilarityIsOne ==
    (/\ score # Undefined
     /\ score.features1 = score.features2
     /\ NotAllZero(score.features1.mfccMean))
        => score.result.overallSimilarity = One

\* the reference template of a stored profile as a feature set: the mean of
\* each feature over the samples the profile was enrolled from
RECURSIVE SumField(_, _, _)
SumField(samples, field, n) ==
    IF n = 0 THEN Zero ELSE FloatAdd(SumField(samples, field, n - 1), samples[n][field])

ReferenceTemplate(voiceProfile) ==
    LET samples == voiceProfile.samples
        count == FromInt(Len(samples))
    IN [field \in DOMAIN samples[1] |->
           IF field = "mfccMean"
           THEN [i \in 1..Len(samples[1].mfccMean) |->
                    FloatDiv(SumAt([k \in DOMAIN samples |-> samples[k].mfccMean], i, Len(samples)),
                             count)]
           ELSE FloatDiv(SumField(samples, field, Len(samples)), count)]

\* C25: on the local verification path of RuntimeAPI.voiceVerify the score
\* compared with the threshold is the similarity of the sample to the stored
\* reference template, and the sample is accepted if and only if that
\* similarity is at least the configured voice threshold.
C25_VerifiedIffSimilarToTemplate ==
    (response.to.type = "voiceVerify" /\ "best" \in DOMAIN response) =>
        LET voiceModel == getVoiceModel(voiceModels, AppOrigin, response.to.username)
            similarity == calculateSimilarityScore(response.features,
                                                   ReferenceTemplate(voiceModel)).overallSimilarity
            threshold == ToFloat(getGlobalSettings(globalSettings).voiceThreshold)
        IN /\ response.best = similarity
           /\ response.resolved = ~FloatLess(similarity, threshold)

\* C28: a voice profile in the store was enrolled from at least the required
\* number of voice samples, and its reference template is the element-wise
\* mean of those samples.
C28_ProfileFromRequiredSamples ==
    \A r \in voiceModels :
        r.origin = AppOrigin =>
            /\ Len(r.voiceProfile.samples) >= requiredVoiceSamples
            /\ r.voiceProfile.template = ReferenceTemplate(r.voiceProfile).mfccMean

----------------------------------------------------------------------------
(* Content script claims *)

\* C27: non-biometric keys are discarded before capture on every capture
\* path: neither the list KeystrokeAnalyzer.captureKeystroke builds nor the
\* list the content script's handleKeystroke builds holds an event of an
\* ignored key, and a field that captured nothing but ignored keys is not
\* capturing
C27_IgnoredKeysNeverCaptured ==
    /\ \A i \in DOMAIN keystrokeData : keystrokeData[i].key \notin ignoredKeys
    /\ \A i \in DOMAIN fieldData.keystrokes : fieldData.keystrokes[i].key \notin ignoredKeys
    /\ fieldData.isCapturing => fieldData.keystrokes # <<>>

\* the submit handler has finished after an AUTH_CHECK the background answered
\* with a biometric mismatch
MismatchAnswered ==
    /\ page.handler = "idle"
    /\ response.to = To("AUTH_CHECK", currentSite, pageUsername)
    /\ response.args.success
    /\ ~response.args.data.authenticated

\* C23: when the AUTH_CHECK of a submitted form answers with a biometric
\* mismatch, that submission is blocked: the form has not been sent
C23_MismatchBlocksSubmission ==
    MismatchAnswered => ~page.formSubmitted

\* C22: once the form has been submitted the required five times by a user
\* who never declined enrollment, a keystroke model for (origin, username)
\* is stored
C22_FiveSubmissionsEnroll ==
    (/\ page.submissions >= SAMPLES_REQUIRED
     /\ page.handler = "idle"
     /\ ~page.declined)
    => getKeystrokeModel(keystrokeModels, currentSite, pageUsername) # Null

----------------------------------------------------------------------------
(* Claims about the lookups of the store and the answers of the listener *)

\* the samples stored for (origin, username) whose tag verifies
ValidSamplesFor(store, origin, username) ==
    {r \in store : /\ r.origin = origin
                   /\ r.username = username
                   /\ verifyHMAC(r.sampleData, r.signature)}

\* C31: getTrainingSamples(origin, username) returns every training sample
\* stored for that pair whose tag verifies, whatever its sample index, and no
\* sample of another pair
C31_GetTrainingSamplesReturnsPairSamples ==
    \A pair \in Pairs :
        getTrainingSamples(trainingSamples, pair[1], pair[2])
            = ValidSamplesFor(trainingSamples, pair[1], pair[2])

----------------------------------------------------------------------------
(* The onMessage listener and the control flow of its handlers.  A handler  *)
(* is the list of the statements of its try block, in source order: an     *)
(* "eval" is an expression or an await that can throw, an "if" enters its  *)
(* branch or goes on at the statement numbered else, a "respond" calls the *)
(* response callback.  The catch block of every handler, and that of the   *)
(* listener, is a single respond.                                          *)

Eval == [op |-> "eval", else |-> 0]
If(else) == [op |-> "if", else |-> else]
Respond == [op |-> "respond", else |-> 0]

MessageTypes ==
    {"AUTH_CHECK", "VOICE_CHECK", "TRAIN_MODEL", "TRAIN_VOICE", "GET_SETTINGS",
     "SET_SETTINGS", "CLEAR_DATA", "GET_STATS", "HEALTH_CHECK", "UNKNOWN"}

\* the statements run for a message of the type, after the listener has
\* read type and data from it
TryBlock(type) ==
    CASE type = "AUTH_CHECK" ->
            \* destructure; if missing respond; await getKeystrokeModel;
            \* if no model respond; authenticateWithModel; log; respond
            <<Eval, If(4), Respond, Eval, If(7), Respond, Eval, Eval, Respond>>
      [] type = "VOICE_CHECK" ->
            \* as above, with await getGlobalSettings before verifyVoiceProfile
            <<Eval, If(4), Respond, Eval, If(7), Respond, Eval, Eval, Eval, Respond>>
      [] type = "TRAIN_MODEL" ->
            \* destructure; if missing respond; await storeTrainingSample;
            \* await getTrainingSamples; await getGlobalSettings; if enough:
            \* await trainKeystrokeModel, await storeKeystrokeModel, log,
            \* respond; else respond
            <<Eval, If(4), Respond, Eval, Eval, Eval, If(12), Eval, Eval, Eval, Respond, Respond>>
      [] type = "TRAIN_VOICE" ->
            \* as TRAIN_MODEL, without getGlobalSettings and the log
            <<Eval, If(4), Respond, Eval, Eval, If(10), Eval, Eval, Respond, Respond>>
      [] type \in {"GET_SETTINGS", "SET_SETTINGS"} ->
            \* destructure; if global: await, respond; else if site: await,
            \* respond; else respond
            <<Eval, If(5), Eval, Respond, If(8), Eval, Respond, Respond>>
      [] type = "CLEAR_DATA" ->
            \* destructure; all, site and user: await, respond; else respond
            <<Eval, If(5), Eval, Respond, If(8), Eval, Respond, If(11), Eval, Respond, Respond>>
      [] type = "GET_STATS" ->
            <<Eval, Respond>>
      [] OTHER ->
            \* HEALTH_CHECK and default: the listener itself responds
            <<Respond>>

\* a respond whose call leaves the function only at the end of the block
AfterRespondFallingThrough(type, pc) == pc + 1

\* where control goes after a respond: every one is `return sendResponse(...)`
\* or is followed by break, so the block is left (0)
AfterRespond(type, pc) == 0

IdleListener == [type |-> "none", block |-> "idle", pc |-> 0, answers |-> 0]

\* chrome.runtime.onMessage fires; the listener starts its async function and
\* returns true
ReceiveMessage ==
    \E type \in MessageTypes :
        /\ listener.block \in {"idle", "done"}
        /\ listener' = [type |-> type, block |-> "listener", pc |-> 1, answers |-> 0]
        /\ UNCHANGED <<storeVars, submitted, keyVars, libVars, writeVars, voiceVars, contentVars, raceVars, historyVars, timerVars, hookVars>>

\* const { type, data } = message, and the log: throws when the message is
\* null or undefined
ListenerReadsMessage ==
    \E throws \in BOOLEAN :
        /\ listener.block = "listener"
        /\ listener' = [listener EXCEPT !.block = IF throws THEN "listenerCatch" ELSE "try"]
        /\ UNCHANGED <<storeVars, submitted, keyVars, libVars, writeVars, voiceVars, contentVars, raceVars, historyVars, timerVars, hookVars>>

\* one statement of the try block
HandlerStatement ==
    \E throws \in BOOLEAN, taken \in BOOLEAN :
        /\ listener.block = "try"
        /\ LET block == TryBlock(listener.type)
               stmt == block[listener.pc]
               Goto(pc) == IF pc = 0 \/ pc > Len(block)
                           THEN [listener EXCEPT !.block = "done"]
                           ELSE [listener EXCEPT !.pc = pc]
           IN listener' =
                IF stmt.op = "eval"
                THEN IF throws THEN [listener EXCEPT !.block = "catch"]
                     ELSE Goto(listener.pc + 1)
                ELSE IF stmt.op = "if"
                THEN Goto(IF taken THEN listener.pc + 1 ELSE stmt.else)
                ELSE LET next == AfterRespond(listener.type, listener.pc) IN
                     IF next = 0 \/ next > Len(block)
                     THEN [listener EXCEPT !.block = "done", !.answers = @ + 1]
                     ELSE [listener EXCEPT !.pc = next, !.answers = @ + 1]
        /\ UNCHANGED <<storeVars, submitted, keyVars, libVars, writeVars, voiceVars, contentVars, raceVars, historyVars, timerVars, hookVars>>

\* the catch block of the handler, or that of the listener: one respond
CatchBlock ==
    /\ listener.block \in {"catch", "listenerCatch"}
    /\ listener' = [listener EXCEPT !.block = "done", !.answers = @ + 1]
    /\ UNCHANGED <<storeVars, submitted, keyVars, libVars, writeVars, voiceVars, contentVars, raceVars, historyVars, timerVars, hookVars>>

NextListener ==
    \/ ReceiveMessage
    \/ ListenerReadsMessage
    \/ HandlerStatement
    \/ CatchBlock

SpecListener == Init /\ [][NextListener]_vars

\* C32: every message received by the listener is answered exactly once: the
\* response callback is never called a second time, and it has been called
\* once when the handling of the message is over
C32_AnsweredExactlyOnce ==
    /\ listener.answers <= 1
    /\ listener.block = "done" => listener.answers = 1

\* a TRAIN_MODEL answered from the catch block: storeKeystrokeModel threw
\* after the training
C32_Witness ==
    /\ listener.type = "TRAIN_MODEL"
    /\ listener.block = "done"
    /\ listener.pc = 9
    /\ listener.answers = 1

\* C33: the value delivered to the sender of a message is the record the
\* sendResponse helper builds: the fields success and message together with
\* the handler's data fields
C33_DeliveredBuiltByHelper ==
    "args" \in DOMAIN response =>
        LET built == HelperResponse(response.args.success, response.args.data,
                                    response.args.message)
        IN /\ DOMAIN response.delivered = DOMAIN built
           /\ response.delivered.success = built.success

----------------------------------------------------------------------------
(* Message handlers that overlap.  The listener starts an async function   *)
(* per message, so a handler that waits at an await leaves the worker to   *)
(* the handlers of later messages.  One TRAIN_MODEL of the pair P1 is      *)
(* followed through its awaits; CLEAR_DATA and SET_SETTINGS are handled in *)
(* between.  clearUserData is one IndexedDB transaction.                   *)

IdleTraining ==
    [pc |-> "idle", sampleIndex |-> NumIdx(0), samples |-> {}, modelData |-> Undefined]

\* settings a SET_SETTINGS message stores
RequiredSamplesChoices ==
    {[requiredSamples |-> 0, voiceThreshold |-> Fin(75)],
     [requiredSamples |-> 1, voiceThreshold |-> Fin(75)]}

\* handleTrainModel up to the end of `await storage.storeTrainingSample(...)`;
\* the client sends the next sample index, or index 0 again
TrainModelReceived ==
    \E sampleIndex \in IdxOf(P1, Cardinality(KeystrokeSamplesOf(trainingSamples, P1[1], P1[2]))) :
        /\ training.pc = "idle"
        /\ trainingSamples' = storeTrainingSample(trainingSamples, P1[1], P1[2], NumIdx(sampleIndex),
                                                  [features |-> Arr(<<Fin(10)>>),
                                                   privacyMode |-> FALSE])
        /\ training' = [IdleTraining EXCEPT !.pc = "stored", !.sampleIndex = NumIdx(sampleIndex)]
        /\ cleared' = cleared \ {P1}
        /\ UNCHANGED <<keystrokeModels, voiceModels, globalSettings, response, trainCalls>>
        /\ UNCHANGED <<submitted, keyVars, libVars, writeVars, voiceVars, contentVars, listenerVars, historyVars, timerVars, hookVars>>

\* handleTrainModel from one await to the next: getTrainingSamples; then
\* getGlobalSettings, the comparison and trainKeystrokeModel; then
\* storeKeystrokeModel and the answer
TrainModelResumes ==
    /\ training.pc # "idle"
    /\ UNCHANGED <<voiceModels, trainingSamples, globalSettings, cleared>>
    /\ IF training.pc = "stored"
       THEN /\ training' = [training EXCEPT
                               !.pc = "read",
                               !.samples = getTrainingSamples(trainingSamples, P1[1], P1[2])]
            /\ UNCHANGED <<keystrokeModels, response, trainCalls>>
       ELSE IF training.pc = "read"
       THEN LET requiredSamples == getGlobalSettings(globalSettings).requiredSamples IN
            IF Cardinality(training.samples) >= requiredSamples
            THEN /\ trainCalls' = Bump(trainCalls, "keystroke", P1[1], P1[2])
                 /\ UNCHANGED keystrokeModels
                 /\ \E featureVectors \in FeatureVectors(training.samples) :
                    \E modelData \in trainKeystrokeModel(featureVectors) :
                       IF modelData = Throw
                       THEN /\ response' = ChromeSendResponse(To("TRAIN_MODEL", P1[1], P1[2]),
                                                              FALSE, NoData, "Training failed")
                            /\ training' = IdleTraining
                       ELSE /\ training' = [training EXCEPT !.pc = "trained",
                                                            !.modelData = modelData]
                            /\ UNCHANGED response
            ELSE /\ response' = ChromeSendResponse(To("TRAIN_MODEL", P1[1], P1[2]), TRUE,
                                    [modelTrained |-> FALSE,
                                     sampleCount |-> Cardinality(training.samples),
                                     requiredSamples |-> requiredSamples],
                                    "Continue enrollment")
                 /\ training' = IdleTraining
                 /\ UNCHANGED <<keystrokeModels, trainCalls>>
       ELSE /\ keystrokeModels' = storeKeystrokeModel(keystrokeModels, P1[1], P1[2],
                                                      training.modelData)
            /\ response' = ChromeSendResponse(To("TRAIN_MODEL", P1[1], P1[2]), TRUE,
                               [modelTrained |-> TRUE,
                                sampleCount |-> Cardinality(training.samples),
                                threshold |-> training.modelData.threshold],
                               "Biometric model trained successfully")
            /\ training' = IdleTraining
            /\ UNCHANGED trainCalls
    /\ UNCHANGED <<submitted, keyVars, libVars, writeVars, voiceVars, contentVars, listenerVars, historyVars, timerVars, hookVars>>

\* a CLEAR_DATA of type user for P1, handled while a TRAIN_MODEL may wait
ClearUserDataMessage ==
    /\ handleClearData("user", P1[1], P1[2])
    /\ cleared' = cleared \cup {P1}
    /\ UNCHANGED training
    /\ UNCHANGED <<submitted, keyVars, libVars, writeVars, voiceVars, contentVars, listenerVars, historyVars, timerVars, hookVars>>

SetRequiredSamples ==
    \E settings \in RequiredSamplesChoices :
        /\ handleSetSettings(settings)
        /\ UNCHANGED <<submitted, keyVars, libVars, writeVars, voiceVars, contentVars,
                       listenerVars, raceVars, historyVars, timerVars, hookVars>>

\* a profile enrolled for P1 without a message: RuntimeAPI.trainModel calls
\* storeKeystrokeModel itself
ProfileEnrolledDirectly ==
    /\ keystrokeModels' = storeKeystrokeModel(keystrokeModels, P1[1], P1[2],
                                              ModelData(Fin(AUTOENCODER_THRESHOLD), Fin(2), Fin(1)))
    /\ cleared' = cleared \ {P1}
    /\ UNCHANGED <<voiceModels, trainingSamples, globalSettings, response, trainCalls, training>>
    /\ UNCHANGED <<submitted, keyVars, libVars, writeVars, voiceVars, contentVars, listenerVars, historyVars, timerVars, hookVars>>

NextOverlap ==
    \/ TrainModelReceived
    \/ TrainModelResumes
    \/ ClearUserDataMessage
    \/ SetRequiredSamples
    \/ ProfileEnrolledDirectly

SpecOverlap == Init /\ [][NextOverlap]_vars

----------------------------------------------------------------------------
(* The integrity store and a party that copies records.  IndexedDB is open *)
(* to the device owner, who can put any record, but computes no tag: a     *)
(* record written by that party carries a payload and a tag found in the   *)
(* store.  The two identities have ids that differ.                        *)

CopyPairs == {<<OA, UBC>>, <<OA, UC>>}

\* profiles passed to storeKeystrokeModel
CopiedModelDatas ==
    {ModelData(Fin(AUTOENCODER_THRESHOLD), Fin(2), Fin(1)),
     ModelData(Fin(AUTOENCODER_THRESHOLD), Fin(4), Fin(1))}

Passed(kind, origin, username, payload) ==
    [kind |-> kind, origin |-> origin, username |-> username, payload |-> payload]

StoreKeystrokeModelFor ==
    \E pair \in CopyPairs, modelData \in CopiedModelDatas :
        /\ keystrokeModels' = storeKeystrokeModel(keystrokeModels, pair[1], pair[2], modelData)
        /\ passed' = passed \cup {Passed("keystroke", pair[1], pair[2], modelData)}
        /\ response' = Stored("storeKeystrokeModel", KeystrokeId(pair[1], pair[2]),
                               Get(keystrokeModels, KeystrokeId(pair[1], pair[2])) # {})
        /\ UNCHANGED <<voiceModels, trainingSamples, globalSettings, trainCalls>>
        /\ UNCHANGED <<keyVars, libVars, submitted, writeVars, voiceVars, contentVars,
                       listenerVars, raceVars, timerVars, hookVars>>

StoreVoiceModelFor ==
    \E pair \in CopyPairs :
    \E voiceProfile \in VoiceProfiles(pair[2]) :
        /\ voiceModels' = storeVoiceModel(voiceModels, pair[1], pair[2], voiceProfile)
        /\ passed' = passed \cup {Passed("voice", pair[1], pair[2], voiceProfile)}
        /\ response' = Stored("storeVoiceModel", VoiceId(pair[1], pair[2]),
                               Get(voiceModels, VoiceId(pair[1], pair[2])) # {})
        /\ UNCHANGED <<keystrokeModels, trainingSamples, globalSettings, trainCalls>>
        /\ UNCHANGED <<keyVars, libVars, submitted, writeVars, voiceVars, contentVars,
                       listenerVars, raceVars, timerVars, hookVars>>

\* a record of the store is put again under the id and the names of another
\* identity, its payload and its tag as they are
CopyRecord ==
    \E kind \in {"keystroke", "voice"}, pair \in CopyPairs :
    \E r \in IF kind = "keystroke" THEN keystrokeModels ELSE voiceModels :
        LET copy == [r EXCEPT !.id = IF kind = "keystroke" THEN KeystrokeId(pair[1], pair[2])
                                     ELSE VoiceId(pair[1], pair[2]),
                              !.origin = pair[1],
                              !.username = pair[2]]
        IN /\ copy # r
           /\ IF kind = "keystroke"
              THEN keystrokeModels' = Put(keystrokeModels, copy) /\ UNCHANGED voiceModels
              ELSE voiceModels' = Put(voiceModels, copy) /\ UNCHANGED keystrokeModels
           /\ response' = NoResponse
           /\ UNCHANGED <<trainingSamples, globalSettings, trainCalls, passed>>
           /\ UNCHANGED <<keyVars, libVars, submitted, writeVars, voiceVars, contentVars,
                          listenerVars, raceVars, timerVars, hookVars>>

NextCopy ==
    \/ StoreKeystrokeModelFor
    \/ StoreVoiceModelFor
    \/ CopyRecord

SpecCopy == Init /\ [][NextCopy]_vars

\* C35: a payload returned by getKeystrokeModel(origin, username) or by
\* getVoiceModel(origin, username) was passed to the store operation of that
\* kind with that origin and username, whatever a party that computes no tag
\* has written into the stores
C35_ReturnedPayloadWasStoredForIdentity ==
    \A pair \in CopyPairs :
        /\ LET modelData == getKeystrokeModel(keystrokeModels, pair[1], pair[2]) IN
           modelData # Null => Passed("keystroke", pair[1], pair[2], modelData) \in passed
        /\ LET voiceProfile == getVoiceModel(voiceModels, pair[1], pair[2]) IN
           voiceProfile # Null => Passed("voice", pair[1], pair[2], voiceProfile) \in passed

----------------------------------------------------------------------------
(* KeystrokeAnalyzer's inactivity timers.  Time is counted in ticks of     *)
(* 100 ms.  The analyzer keeps lastCaptureTime; the state holds the time   *)
(* passed since then (sinceCapture, not counted beyond what any comparison *)
(* reads) and, per pending timer, the ticks left until it is due.  A timer *)
(* runs when it is due or later, at most MaxLate ticks later.  The event   *)
(* list captureKeystroke appends to is left out: no timer reads it.        *)

TimeoutTicks == 50     \* 5000 ms, the inactivity the callback tests for
DelayTicks == 51       \* 5100 ms, the delay of setTimeout
MaxLate == 2           \* a timer runs at most this many ticks after it is due
MaxTimers == 2         \* at most this many timers are pending

SinceCap == DelayTicks + MaxLate + 1

\* a callback that tests for the delay of the timer
InactiveForDelay(sinceCapture) == sinceCapture > DelayTicks

\* performance.now() - this.lastCaptureTime > 5000
Inactive(sinceCapture) == sinceCapture > TimeoutTicks

\* captureKeystroke of a key that is not ignored
CaptureTimed ==
    /\ Len(analyzer.timers) < MaxTimers
    /\ analyzer' = [isCapturing |-> TRUE,
                    sinceCapture |-> 0,
                    timers |-> Append(analyzer.timers, DelayTicks)]
    /\ UNCHANGED <<storeVars, submitted, keyVars, libVars, writeVars, voiceVars, contentVars,
                   listenerVars, raceVars, historyVars, hookVars>>

\* 100 ms pass; no timer is left waiting for more than MaxLate ticks
Tick ==
    /\ \A i \in DOMAIN analyzer.timers : analyzer.timers[i] > -MaxLate
    /\ analyzer.timers # <<>> \/ analyzer.sinceCapture < SinceCap
    /\ analyzer' = [analyzer EXCEPT
                       !.sinceCapture = IF @ < SinceCap THEN @ + 1 ELSE @,
                       !.timers = [i \in DOMAIN @ |-> @[i] - 1]]
    /\ UNCHANGED <<storeVars, submitted, keyVars, libVars, writeVars, voiceVars, contentVars,
                   listenerVars, raceVars, historyVars, hookVars>>

\* the callback of the timer that is due first
TimerCallback ==
    /\ analyzer.timers # <<>>
    /\ Head(analyzer.timers) <= 0
    /\ analyzer' = [analyzer EXCEPT
                       !.timers = Tail(@),
                       !.isCapturing = IF Inactive(analyzer.sinceCapture) THEN FALSE ELSE @]
    /\ UNCHANGED <<storeVars, submitted, keyVars, libVars, writeVars, voiceVars, contentVars,
                   listenerVars, raceVars, historyVars, hookVars>>

\* resetCapture(): the timers and lastCaptureTime stay as they are
ResetCaptureTimed ==
    /\ analyzer.isCapturing
    /\ analyzer' = [analyzer EXCEPT !.isCapturing = FALSE]
    /\ UNCHANGED <<storeVars, submitted, keyVars, libVars, writeVars, voiceVars, contentVars,
                   listenerVars, raceVars, historyVars, hookVars>>

NextTimers ==
    \/ CaptureTimed
    \/ Tick
    \/ TimerCallback
    \/ ResetCaptureTimed

SpecTimers == Init /\ [][NextTimers]_vars

\* a timer callback has just run and found isCapturing set
TimerCleared ==
    /\ analyzer.isCapturing
    /\ ~analyzer'.isCapturing
    /\ Len(analyzer'.timers) < Len(analyzer.timers)

MaxStarts == 3
MaxRecordingTime == 2

\* startRecording from the moment getUserMedia settles: nothing looks at
\* isRecording or at the refs before they are overwritten
StartRecording ==
    \E granted \in BOOLEAN, supported \in BOOLEAN :
        /\ hook.started < MaxStarts
        /\ LET id == hook.started + 1
           IN IF ~granted
              THEN hook' = [hook EXCEPT !.started = id, !.threw = TRUE]
              ELSE IF ~supported
              THEN hook' = [hook EXCEPT !.started = id,
                                        !.streams = @ \cup {id},
                                        !.streamRef = id,
                                        !.threw = TRUE]
              ELSE hook' = [hook EXCEPT !.started = id,
                                        !.streams = @ \cup {id},
                                        !.streamRef = id,
                                        !.mediaRecorderRef = id,
                                        !.recorders = @ \cup {id},
                                        !.isRecording = TRUE,
                                        !.recordingTime = 0,
                                        !.intervals = @ \cup {id},
                                        !.timerRef = id,
                                        !.threw = FALSE]
        /\ UNCHANGED <<storeVars, keyVars, libVars, submitted, writeVars, voiceVars, contentVars,
                       listenerVars, raceVars, historyVars, timerVars>>

\* stopRecording with the onstop handler of the recorder it stops, which
\* stops the tracks of the stream that recorder was made for
StopRecording ==
    /\ IF hook.mediaRecorderRef # 0 /\ hook.isRecording
       THEN hook' = [hook EXCEPT !.recorders = @ \ {hook.mediaRecorderRef},
                                 !.streams = @ \ {hook.mediaRecorderRef},
                                 !.isRecording = FALSE,
                                 !.intervals = @ \ {hook.timerRef},
                                 !.timerRef = 0,
                                 !.threw = FALSE]
       ELSE hook' = [hook EXCEPT !.threw = FALSE]
    /\ UNCHANGED <<storeVars, keyVars, libVars, submitted, writeVars, voiceVars, contentVars,
                   listenerVars, raceVars, historyVars, timerVars>>

ResetRecording ==
    /\ hook' = [hook EXCEPT !.recordingTime = 0, !.threw = FALSE]
    /\ UNCHANGED <<storeVars, keyVars, libVars, submitted, writeVars, voiceVars, contentVars,
                   listenerVars, raceVars, historyVars, timerVars>>

\* the callback of one of the running intervals
IntervalCallback ==
    \E id \in hook.intervals :
        /\ hook.recordingTime < MaxRecordingTime
        /\ hook' = [hook EXCEPT !.recordingTime = @ + 1]
        /\ UNCHANGED <<storeVars, keyVars, libVars, submitted, writeVars, voiceVars, contentVars,
                       listenerVars, raceVars, historyVars, timerVars>>

NextVoiceHook ==
    \/ StartRecording
    \/ StopRecording
    \/ ResetRecording
    \/ IntervalCallback

SpecVoiceHook == Init /\ [][NextVoiceHook]_vars

\* C37: whatever the calls of startRecording, stopRecording and
\* resetRecording, at most one interval timer runs and at most one microphone
\* stream is open, and no interval timer runs while the hook is not recording
C37_OneTimerOneStream ==
    /\ Cardinality(hook.intervals) <= 1
    /\ Cardinality(hook.streams) <= 1
    /\ ~hook.isRecording => hook.intervals = {}

====
